---------------------------- MODULE Spec2Model ----------------------------
(***************************************************************************)
(* A model of lhci-slack-reporter: the median aggregation of repeated      *)
(* Lighthouse runs (lighthouse.ts), the summary statistics (utils.ts),     *)
(* the Slack block renderer (slack.ts) and the concurrent batch runner     *)
(* (runLighthouseTests).                                                    *)
(*                                                                         *)
(* Numbers.  A score is a JavaScript number in [0,1].  The model keeps a   *)
(* score as an integer count of 1/200 ("units"): Lighthouse reports scores *)
(* in hundredths (an even number of units), the median of an even number   *)
(* of runs is a multiple of 1/200, and the summary's averages are computed *)
(* exactly from the sum and the count.  Where the outcome depends on the   *)
(* rounding of IEEE doubles (the order of a sum, the difference of two     *)
(* averages against 0.1) the model computes in binary64: the Double        *)
(* operators below, used by SpecDouble and by the device gap.              *)
(*                                                                         *)
(* Objects.  A JavaScript object used as a map (Record<string, T>) is a    *)
(* sequence of [k, v] entries in insertion order, which is the order       *)
(* Object.entries / Object.keys / Object.values enumerate string keys.     *)
(*                                                                         *)
(* Text.  A text is a sequence of lines (strings without line breaks); the *)
(* JavaScript string is the lines joined by "\n".  Every emoji of the      *)
(* source is two UTF-16 code units long and is written here as a two       *)
(* letter ASCII stand-in, so that String.length is preserved.              *)
(***************************************************************************)
EXTENDS Integers, Sequences, FiniteSets, TLC

VARIABLES
    pc,          \* position of the driver of the specification
    runs,        \* averageLighthouseResults: its argument
    averaged,    \* averageLighthouseResults: its outcome
    results,     \* LighthouseResult[]: runLighthouseTests' results, the summary's input
    errors,      \* runLighthouseTests' errors
    formatted,   \* FormattedLighthouseResults (results and summary)
    title,       \* slack title
    env,         \* process.env and the clock read by the renderer
    blocks,      \* the rendered Slack blocks
    urls,        \* runLighthouseTests' urls
    deviceTypes, \* runLighthouseTests' deviceTypes
    runsPerUrl,  \* runLighthouseTests' runsPerUrl
    warmupRuns,  \* runLighthouseTests' warmupRuns
    batchStart,  \* runLighthouseTests' loop variable i
    task,        \* one record per (url, deviceType) promise of the current batch
    inputs,      \* the inputs of the action that run() and sendSlackReport read
    log,         \* the core.setFailed and core.warning calls of run(), in order
    attempts,    \* the requests sent to Slack by the current sendSlackReport call
    sent,        \* the outcome of the sendSlackReport call
    audit        \* the locals of one runLighthouseForUrl or runPSITest call

\* The variables of run(), of the delivery to Slack and of a single audit call.
runVars == <<inputs, log, attempts, sent, audit>>

vars == <<pc, runs, averaged, results, errors, formatted, title, env, blocks,
          urls, deviceTypes, runsPerUrl, warmupRuns, batchStart, task, runVars>>

\* The value of a variable a specification does not use.
Unused == "unused"

-----------------------------------------------------------------------------
(* Generic helpers *)

Range(s) == {s[i] : i \in 1..Len(s)}

RECURSIVE SumSeq(_)
SumSeq(s) == IF s = <<>> THEN 0 ELSE Head(s) + SumSeq(Tail(s))

Min2(a, b) == IF a <= b THEN a ELSE b
Max2(a, b) == IF a >= b THEN a ELSE b

\* Math.round of the non-negative rational num/den: the nearest integer, halves up.
MathRound(num, den) == (2 * num + den) \div (2 * den)

\* A function result: a returned value or a thrown error.
Return(v) == [threw |-> FALSE, value |-> v]
Throw(m) == [threw |-> TRUE, error |-> m]

\* A JavaScript object as a map: entries in insertion order.
ObjHas(o, k) == \E i \in 1..Len(o) : o[i].k = k
ObjGet(o, k) == o[CHOOSE i \in 1..Len(o) : o[i].k = k].v
ObjSet(o, k, v) ==
    IF ObjHas(o, k)
    THEN [i \in 1..Len(o) |-> IF o[i].k = k THEN [k |-> k, v |-> v] ELSE o[i]]
    ELSE Append(o, [k |-> k, v |-> v])
ObjKeys(o) == [i \in 1..Len(o) |-> o[i].k]
ObjValues(o) == [i \in 1..Len(o) |-> o[i].v]
\* The object as a mathematical function, forgetting the key order.
ObjMap(o) == [k \in {o[i].k : i \in 1..Len(o)} |-> ObjGet(o, k)]

\* All permutations of 1..n, as functions.
Perms(n) == {p \in [1..n -> 1..n] : \A i, j \in 1..n : i # j => p[i] # p[j]}
Permute(s, p) == [i \in 1..Len(s) |-> s[p[i]]]

-----------------------------------------------------------------------------
(* JavaScript numbers as IEEE 754 binary64.  A non-negative number is kept *)
(* exactly, as a fixed-point numeral of Limbs digits in base LimbBase,     *)
(* least significant first: the last digit is the integer part, the others *)
(* are FractionBits bits of fraction.  An operation computes its exact     *)
(* result and rounds it to Precision significant bits, to nearest, ties to *)
(* even.  The numeral is long enough for every number the summary and the  *)
(* insights compute from scores in hundredths.                             *)

Precision == 53
FractionBits == Precision + 11
LimbBits == FractionBits \div 4
LimbBase == 2^LimbBits
Limbs == (FractionBits \div LimbBits) + 1

DoubleZero == [i \in 1..Limbs |-> 0]

\* The integer n, 0 <= n < LimbBase.
DoubleOfInt(n) == [i \in 1..Limbs |-> IF i = Limbs THEN n ELSE 0]

RECURSIVE AddFrom(_, _, _, _, _)
AddFrom(a, b, i, carry, sum) ==
    IF i > Limbs THEN sum
    ELSE LET t == a[i] + b[i] + carry
         IN AddFrom(a, b, i + 1, t \div LimbBase, [sum EXCEPT ![i] = t % LimbBase])

\* a + b, exactly
AddBits(a, b) == AddFrom(a, b, 1, 0, DoubleZero)

RECURSIVE SubFrom(_, _, _, _, _)
SubFrom(a, b, i, borrow, diff) ==
    IF i > Limbs THEN diff
    ELSE LET t == a[i] - b[i] - borrow
         IN SubFrom(a, b, i + 1, IF t < 0 THEN 1 ELSE 0,
                    [diff EXCEPT ![i] = IF t < 0 THEN t + LimbBase ELSE t])

\* a - b for a >= b, exactly
SubBits(a, b) == SubFrom(a, b, 1, 0, DoubleZero)

RECURSIVE MulFrom(_, _, _, _, _)
MulFrom(a, n, i, carry, product) ==
    IF i > Limbs THEN product
    ELSE LET t == a[i] * n + carry
         IN MulFrom(a, n, i + 1, t \div LimbBase, [product EXCEPT ![i] = t % LimbBase])

\* a * n for a small integer n, exactly
MulBits(a, n) == MulFrom(a, n, 1, 0, DoubleZero)

RECURSIVE DivFrom(_, _, _, _, _)
DivFrom(a, n, i, rem, q) ==
    IF i = 0 THEN [quotient |-> q, remainder |-> rem]
    ELSE LET t == rem * LimbBase + a[i]
         IN DivFrom(a, n, i - 1, t % n, [q EXCEPT ![i] = t \div n])

\* a / n for a small integer n > 0: the quotient cut at the last bit, and the remainder
DivBits(a, n) == DivFrom(a, n, Limbs, 0, DoubleZero)

RECURSIVE LessFrom(_, _, _)
LessFrom(a, b, i) ==
    IF i = 0 THEN FALSE
    ELSE IF a[i] # b[i] THEN a[i] < b[i]
    ELSE LessFrom(a, b, i - 1)

\* a < b
DoubleLess(a, b) == LessFrom(a, b, Limbs)

RECURSIVE BitLength(_)
\* The number of bits of the digit x.
BitLength(x) == IF x = 0 THEN 0 ELSE 1 + BitLength(x \div 2)

RECURSIVE TopLimbFrom(_, _)
TopLimbFrom(a, i) == IF i = 0 THEN 0 ELSE IF a[i] # 0 THEN i ELSE TopLimbFrom(a, i - 1)

\* The place of the leading bit, counted from 1 at the last bit of the fraction; 0 for zero.
TopBit(a) ==
    LET h == TopLimbFrom(a, Limbs)
    IN IF h = 0 THEN 0 ELSE LimbBits * (h - 1) + BitLength(a[h])

\* The bit at place p.
BitAt(a, p) == (a[((p - 1) \div LimbBits) + 1] \div 2^((p - 1) % LimbBits)) % 2

\* The exact value a, or a value between a and the next numeral when inexact, rounded
\* to Precision significant bits: to nearest, ties to even.
RoundBits(a, inexact) ==
    LET cut == TopBit(a) - Precision
    IN IF cut <= 0 THEN a
       ELSE LET halfLimb == ((cut - 1) \div LimbBits) + 1
                halfBit == (cut - 1) % LimbBits
                lastLimb == (cut \div LimbBits) + 1
                lastBit == cut % LimbBits
                kept == [i \in 1..Limbs |->
                            IF i < lastLimb THEN 0
                            ELSE IF i = lastLimb THEN a[i] - (a[i] % 2^lastBit)
                            ELSE a[i]]
                below == \/ inexact
                         \/ \E i \in 1..(halfLimb - 1) : a[i] # 0
                         \/ a[halfLimb] % 2^halfBit # 0
                up == BitAt(a, cut) = 1 /\ (below \/ BitAt(a, cut + 1) = 1)
            IN IF up
               THEN AddBits(kept, [i \in 1..Limbs |-> IF i = lastLimb THEN 2^lastBit ELSE 0])
               ELSE kept

\* The number a decimal literal num/den reads as (JSON.parse of a score, 0.1).
DoubleLiteral(num, den) ==
    LET d == DivBits(DoubleOfInt(num), den)
    IN RoundBits(d.quotient, d.remainder # 0)

\* a + b
DoubleAdd(a, b) == IF a = DoubleZero THEN b ELSE RoundBits(AddBits(a, b), FALSE)

\* Math.abs(a - b)
DoubleAbsDiff(a, b) ==
    IF DoubleLess(a, b) THEN RoundBits(SubBits(b, a), FALSE)
    ELSE RoundBits(SubBits(a, b), FALSE)

\* a * n for an integer n
DoubleTimes(a, n) == IF a = DoubleZero THEN a ELSE RoundBits(MulBits(a, n), FALSE)

\* a / n for an integer n
DoubleOver(a, n) ==
    IF a = DoubleZero THEN a
    ELSE LET d == DivBits(a, n)
         IN RoundBits(d.quotient, d.remainder # 0)

\* Math.round(a): the nearest integer, halves up
DoubleMathRound(a) == a[Limbs] + BitAt(a, FractionBits)

-----------------------------------------------------------------------------
(* lighthouse.ts: averageLighthouseResults (psi.ts: averagePSIResults is   *)
(* the same code)                                                          *)

\* result.categories.forEach(category => { if (!acc[category.id]) acc[category.id] = [];
\*                                         acc[category.id].push(category.score) })
RECURSIVE PushCategoryScores(_, _)
PushCategoryScores(acc, categories) ==
    IF categories = <<>> THEN acc
    ELSE LET category == Head(categories)
             old == IF ObjHas(acc, category.id) THEN ObjGet(acc, category.id) ELSE <<>>
         IN PushCategoryScores(ObjSet(acc, category.id, Append(old, category.score)),
                               Tail(categories))

\* results.forEach(result => result.categories.forEach(...)), from the accumulator acc
RECURSIVE CollectCategoryScores(_, _)
CollectCategoryScores(acc, rs) ==
    IF rs = <<>> THEN acc
    ELSE CollectCategoryScores(PushCategoryScores(acc, Head(rs).categories), Tail(rs))

\* Insertion of x into the ascending sequence s, after the elements equal to it.
RECURSIVE InsertAsc(_, _)
InsertAsc(s, x) ==
    IF s = <<>> THEN <<x>>
    ELSE IF x < Head(s) THEN <<x>> \o s
    ELSE <<Head(s)>> \o InsertAsc(Tail(s), x)

RECURSIVE SortFrom(_, _)
SortFrom(acc, s) == IF s = <<>> THEN acc ELSE SortFrom(InsertAsc(acc, Head(s)), Tail(s))

SortNone(scores) == scores
\* scores.sort((a, b) => a - b)
SortAsc(scores) == SortFrom(<<>>, scores)

\* The arithmetic mean, rounded down to the unit.
MeanScore(scores) == SumSeq(scores) \div Len(scores)
\* The median of the scores of one category id (the array is sorted first).
\* Indices are 1-based here: sorted[length/2 - 1] and sorted[length/2] of the code
\* are sorted[n \div 2] and sorted[n \div 2 + 1].
Median(scores) ==
    LET sorted == SortAsc(scores)
        n == Len(sorted)
    IN IF n % 2 = 0 THEN (sorted[n \div 2] + sorted[n \div 2 + 1]) \div 2
       ELSE sorted[n \div 2 + 1]

\* results[0].categories.find(c => c.id === id): the index of the first match, 0 if none
FindCategory(categories, id) ==
    IF \E i \in 1..Len(categories) : categories[i].id = id
    THEN CHOOSE i \in 1..Len(categories) :
            /\ categories[i].id = id
            /\ \A j \in 1..(i - 1) : categories[j].id # id
    ELSE 0

RECURSIVE KeepEveryCategory(_, _)
KeepEveryCategory(entries, first) ==
    IF entries = <<>> THEN <<>>
    ELSE <<[id |-> Head(entries).k, title |-> "", score |-> Median(Head(entries).v)]>>
         \o KeepEveryCategory(Tail(entries), first)

\* for (const [id, scores] of Object.entries(categoryScores)) { ... push if firstResult }
RECURSIVE AveragedCategories(_, _)
AveragedCategories(entries, first) ==
    IF entries = <<>> THEN <<>>
    ELSE LET id == Head(entries).k
             median == Median(Head(entries).v)
             found == FindCategory(first.categories, id)
             rest == AveragedCategories(Tail(entries), first)
         IN IF found # 0
            THEN <<[id |-> id, title |-> first.categories[found].title, score |-> median]>>
                 \o rest
            ELSE rest

\* averageLighthouseResults without its two early exits
averageAlways(rs) ==
    IF Len(rs) = 0
    THEN Return([url |-> "", deviceType |-> "", categories |-> <<>>, reportUrl |-> ""])
    ELSE Return([url |-> rs[1].url, deviceType |-> rs[1].deviceType,
                 categories |-> AveragedCategories(CollectCategoryScores(<<>>, rs), rs[1]),
                 reportUrl |-> ""])

averageLighthouseResults(rs) ==
    IF Len(rs) = 0 THEN Throw("No results to average")
    ELSE IF Len(rs) = 1 THEN Return(rs[1])
    ELSE LET categoryScores == CollectCategoryScores(<<>>, rs)
         IN Return([url |-> rs[1].url,
                    deviceType |-> rs[1].deviceType,
                    categories |-> AveragedCategories(categoryScores, rs[1]),
                    reportUrl |-> rs[1].reportUrl])

-----------------------------------------------------------------------------
(* utils.ts: formatLighthouseResults and the statistics it computes        *)

\* [...new Set(array)]: the distinct elements in the order of their first occurrence
RECURSIVE UniqueFrom(_, _)
UniqueFrom(acc, s) ==
    IF s = <<>> THEN acc
    ELSE UniqueFrom(IF Head(s) \in Range(acc) THEN acc ELSE Append(acc, Head(s)), Tail(s))

KeepAll(s) == s
Unique(s) == UniqueFrom(<<>>, s)

RECURSIVE MinOf(_)
MinOf(s) == IF Len(s) = 1 THEN s[1] ELSE Min2(Head(s), MinOf(Tail(s)))
MaxAsMin(s) == MinOf(s)
RECURSIVE MaxOf(_)
MaxOf(s) == IF Len(s) = 1 THEN s[1] ELSE Max2(Head(s), MaxOf(Tail(s)))

\* The mean cut, not rounded, to 2 decimals.
TruncatedMean(scores) == 2 * (SumSeq(scores) \div (2 * Len(scores)))
\* Math.round((sum / scores.length) * 100) / 100, in units: sum units are sum/200, so
\* (sum / length) * 100 is sum / (2 * length) and a result of h hundredths is 2 * h units.
RoundedMean(scores) == 2 * MathRound(SumSeq(scores), 2 * Len(scores))

calculateAverageScores(rs) ==
    LET scoresByCategory == CollectCategoryScores(<<>>, rs)
    IN [i \in 1..Len(scoresByCategory) |->
           [k |-> scoresByCategory[i].k, v |-> RoundedMean(scoresByCategory[i].v)]]

calculateMinScores(rs) ==
    LET scoresByCategory == CollectCategoryScores(<<>>, rs)
    IN [i \in 1..Len(scoresByCategory) |->
           [k |-> scoresByCategory[i].k, v |-> MinOf(scoresByCategory[i].v)]]

calculateMaxScores(rs) ==
    LET scoresByCategory == CollectCategoryScores(<<>>, rs)
    IN [i \in 1..Len(scoresByCategory) |->
           [k |-> scoresByCategory[i].k, v |-> MaxOf(scoresByCategory[i].v)]]

AnyDevice(rs, deviceType) == rs
\* results.filter(r => r.deviceType === deviceType)
FilterDevice(rs, deviceType) == SelectSeq(rs, LAMBDA r : r.deviceType = deviceType)

\* results.filter(r => r.url === url)
FilterUrl(rs, url) == SelectSeq(rs, LAMBDA r : r.url = url)

calculateScoresByDevice(rs) ==
    LET types == Unique([i \in 1..Len(rs) |-> rs[i].deviceType])
    IN [i \in 1..Len(types) |->
           [k |-> types[i], v |-> calculateAverageScores(FilterDevice(rs, types[i]))]]

calculateScoresByUrl(rs) ==
    LET us == Unique([i \in 1..Len(rs) |-> rs[i].url])
    IN [i \in 1..Len(us) |->
           [k |-> us[i], v |-> calculateAverageScores(FilterUrl(rs, us[i]))]]

formatLighthouseResults(rs) ==
    [results |-> rs,
     summary |->
        [totalUrls |-> Len(Unique([i \in 1..Len(rs) |-> rs[i].url])),
         totalTests |-> Len(rs),
         averageScores |-> calculateAverageScores(rs),
         scoresByDevice |-> calculateScoresByDevice(rs),
         scoresByUrl |-> calculateScoresByUrl(rs),
         minScores |-> calculateMinScores(rs),
         maxScores |-> calculateMaxScores(rs)]]

-----------------------------------------------------------------------------
(* utils.ts: the averages as binary64 evaluates them.  The definitions     *)
(* above compute the mean over the rationals; the ones below compute       *)
(* scores.reduce((a, b) => a + b, 0), sum / scores.length, * 100,          *)
(* Math.round and / 100 with the rounding of each operation.  A result of  *)
(* h hundredths is the number the literal h/100 reads as, kept as 2 * h    *)
(* units.                                                                  *)

RECURSIVE DoubleSumFrom(_, _)
\* scores.reduce((a, b) => a + b, 0), from the accumulator acc
DoubleSumFrom(acc, scores) ==
    IF scores = <<>> THEN acc
    ELSE DoubleSumFrom(DoubleAdd(acc, DoubleLiteral(Head(scores), 200)), Tail(scores))

\* Math.round((sum / scores.length) * 100) / 100
DoubleRoundedMean(scores) ==
    2 * DoubleMathRound(DoubleTimes(DoubleOver(DoubleSumFrom(DoubleZero, scores),
                                               Len(scores)), 100))

calculateAverageScoresDouble(rs) ==
    LET scoresByCategory == CollectCategoryScores(<<>>, rs)
    IN [i \in 1..Len(scoresByCategory) |->
           [k |-> scoresByCategory[i].k, v |-> DoubleRoundedMean(scoresByCategory[i].v)]]

calculateScoresByDeviceDouble(rs) ==
    LET types == Unique([i \in 1..Len(rs) |-> rs[i].deviceType])
    IN [i \in 1..Len(types) |->
           [k |-> types[i], v |-> calculateAverageScoresDouble(FilterDevice(rs, types[i]))]]

calculateScoresByUrlDouble(rs) ==
    LET us == Unique([i \in 1..Len(rs) |-> rs[i].url])
    IN [i \in 1..Len(us) |->
           [k |-> us[i], v |-> calculateAverageScoresDouble(FilterUrl(rs, us[i]))]]

formatLighthouseResultsDouble(rs) ==
    [results |-> rs,
     summary |->
        [totalUrls |-> Len(Unique([i \in 1..Len(rs) |-> rs[i].url])),
         totalTests |-> Len(rs),
         averageScores |-> calculateAverageScoresDouble(rs),
         scoresByDevice |-> calculateScoresByDeviceDouble(rs),
         scoresByUrl |-> calculateScoresByUrlDouble(rs),
         minScores |-> calculateMinScores(rs),
         maxScores |-> calculateMaxScores(rs)]]

-----------------------------------------------------------------------------
(* slack.ts: the renderer createSlackBlocks and its helpers                *)

\* The emoji of the source, each two UTF-16 code units long.
EmojiGreen == "Gn"       \* U+1F7E2
EmojiYellow == "Ye"      \* U+1F7E1
EmojiRed == "Rd"         \* U+1F534
EmojiMobile == "Mo"      \* U+1F4F1
EmojiDesktop == "De"     \* U+1F4BB
EmojiChart == "Ch"       \* U+1F4CA
EmojiWarning == "Wa"     \* U+26A0 U+FE0F
\* One code unit each.
Bullet == "o"            \* U+2022
MiddleDot == "."         \* U+00B7
\* The code fence of Slack's mrkdwn, three backquotes, which a TLA+ string cannot hold.
Fence == "'''"

RECURSIVE Spaces(_)
\* " ".repeat(n)
Spaces(n) == IF n <= 0 THEN "" ELSE " " \o Spaces(n - 1)

\* A text: its lines; the JavaScript string joins them with "\n".
RECURSIVE TextLength(_)
\* String.length of the text
TextLength(lines) ==
    IF lines = <<>> THEN 0
    ELSE Len(Head(lines)) + (IF Len(lines) > 1 THEN 1 ELSE 0) + TextLength(Tail(lines))

RECURSIVE JsonTextLength(_)
\* The length of the text inside a JSON string: JSON.stringify writes "\n" as two
\* characters; the texts of the model hold no other character that is escaped.
JsonTextLength(lines) ==
    IF lines = <<>> THEN 0
    ELSE Len(Head(lines)) + (IF Len(lines) > 1 THEN 2 ELSE 0) + JsonTextLength(Tail(lines))

\* The blocks: every block is [type, text], text being <<>> for a divider.
HeaderBlock(text) == [type |-> "header", text |-> text]
SectionBlock(text) == [type |-> "section", text |-> text]
DividerBlock == [type |-> "divider", text |-> <<>>]
ContextBlock(text) == [type |-> "context", text |-> text]

\* JSON.stringify(block).length
JsonBlockLength(b) ==
    CASE b.type = "header" ->
            Len("{\"type\":\"header\",\"text\":{\"type\":\"plain_text\",\"text\":\"")
            + JsonTextLength(b.text) + Len("\",\"emoji\":true}}")
      [] b.type = "section" ->
            Len("{\"type\":\"section\",\"text\":{\"type\":\"mrkdwn\",\"text\":\"")
            + JsonTextLength(b.text) + Len("\"}}")
      [] b.type = "divider" -> Len("{\"type\":\"divider\"}")
      [] b.type = "context" ->
            Len("{\"type\":\"context\",\"elements\":[{\"type\":\"mrkdwn\",\"text\":\"")
            + JsonTextLength(b.text) + Len("\"}]}")

RECURSIVE JsonBlocksLength(_)
JsonBlocksLength(bs) ==
    IF bs = <<>> THEN 0
    ELSE JsonBlockLength(Head(bs)) + (IF Len(bs) > 1 THEN 1 ELSE 0)
         + JsonBlocksLength(Tail(bs))

\* JSON.stringify(blocks).length: the brackets, the blocks and the commas between them
JsonLength(bs) == 2 + JsonBlocksLength(bs)

\* getScoreEmoji(num / den)
getScoreEmoji(num, den) ==
    IF num * 10 >= 9 * 200 * den THEN EmojiGreen
    ELSE IF num * 10 >= 5 * 200 * den THEN EmojiYellow
    ELSE EmojiRed

\* Math.round(score * 100) + '%' for a score in units
formatPercentage(score) == ToString(MathRound(score, 2)) \o "%"

\* utils.ts formatScore: the same text
formatScore(score) == ToString(MathRound(score, 2)) \o "%"

\* name.toLowerCase().trim(), then the synonyms of best-practices.  The category ids
\* of the model are lower case and trimmed already.
getNormalizedCategoryName(name) ==
    IF name = "" THEN "unknown"
    ELSE IF name = "bestpractices" \/ name = "best practices" THEN "best-practices"
    ELSE name

\* categoryName.charAt(0).toUpperCase() + categoryName.slice(1), on the ids of the model
Capitalize(name) ==
    CASE name = "unknown" -> "Unknown"
      [] name = "custom" -> "Custom"
      [] OTHER -> name

getCategoryConfig(categoryName) ==
    LET normalized == getNormalizedCategoryName(categoryName)
    IN CASE normalized = "performance" -> [title |-> "Performance", icon |-> "Pf"]
         [] normalized = "accessibility" -> [title |-> "Accessibility", icon |-> "Ac"]
         [] normalized = "best-practices" -> [title |-> "Best Practices", icon |-> "Bp"]
         [] normalized = "bestpractices" -> [title |-> "Best Practices", icon |-> "Bp"]
         [] normalized = "seo" -> [title |-> "SEO", icon |-> "Se"]
         [] normalized = "pwa" -> [title |-> "PWA", icon |-> "Pw"]
         [] OTHER -> [title |-> Capitalize(categoryName), icon |-> EmojiChart]

COLUMN_WIDTH == 13
DEVICE_COLUMN_WIDTH == 5

\* leftPad + text + rightPad of a column COLUMN_WIDTH wide
CenterInColumn(text) ==
    LET paddingSize == (COLUMN_WIDTH - Len(text)) \div 2
    IN Spaces(paddingSize) \o text \o Spaces(COLUMN_WIDTH - Len(text) - paddingSize)

\* ' ' + pad + text + pad of the trailing device column
DeviceColumn(text) ==
    LET paddingSize == (DEVICE_COLUMN_WIDTH - Len(text)) \div 2
    IN " " \o Spaces(paddingSize) \o text
           \o Spaces(Max2(0, DEVICE_COLUMN_WIDTH - Len(text) - paddingSize))

RECURSIVE HeaderCells(_)
HeaderCells(categories) ==
    IF categories = <<>> THEN ""
    ELSE CenterInColumn(getCategoryConfig(Head(categories)).icon) \o "|"
         \o HeaderCells(Tail(categories))

\* generateCategoryHeaders without the case of no category
generateCategoryHeadersOfAny(categories, hasMobileTests, hasDesktopTests) ==
    LET mobilePart == IF hasMobileTests THEN EmojiMobile ELSE ""
        deviceSummary ==
           IF hasDesktopTests
           THEN mobilePart \o (IF Len(mobilePart) > 0 THEN " " ELSE "") \o EmojiDesktop
           ELSE mobilePart
    IN <<Fence \o "| " \o HeaderCells(categories) \o DeviceColumn(deviceSummary) \o Fence>>

generateCategoryHeaders(categories, hasMobileTests, hasDesktopTests) ==
    IF Len(categories) = 0 THEN <<Fence \o "| No categories tested |" \o Fence>>
    ELSE LET mobilePart == IF hasMobileTests THEN EmojiMobile ELSE ""
             deviceSummary ==
                IF hasDesktopTests
                THEN mobilePart \o (IF Len(mobilePart) > 0 THEN " " ELSE "") \o EmojiDesktop
                ELSE mobilePart
         IN <<Fence \o "| " \o HeaderCells(categories) \o DeviceColumn(deviceSummary) \o Fence>>

\* The text of one cell of a score row: mobileScores[category] || 0 and
\* desktopScores[category] || 0, formatted by the devices tested in the report.
ScoreText(category, mobileScores, desktopScores, hasMobile, hasDesktop) ==
    LET mobileScore == IF ObjHas(mobileScores, category)
                       THEN ObjGet(mobileScores, category) ELSE 0
        desktopScore == IF ObjHas(desktopScores, category)
                        THEN ObjGet(desktopScores, category) ELSE 0
    IN IF hasMobile /\ hasDesktop
       THEN formatPercentage(mobileScore) \o "/" \o formatPercentage(desktopScore)
       ELSE IF hasMobile THEN formatPercentage(mobileScore)
       ELSE IF hasDesktop THEN formatPercentage(desktopScore)
       ELSE "N/A"

RECURSIVE RowCells(_, _, _, _, _)
RowCells(categories, mobileScores, desktopScores, hasMobile, hasDesktop) ==
    IF categories = <<>> THEN ""
    ELSE CenterInColumn(ScoreText(Head(categories), mobileScores, desktopScores,
                                  hasMobile, hasDesktop)) \o "|"
         \o RowCells(Tail(categories), mobileScores, desktopScores, hasMobile, hasDesktop)

\* summaryColumn: [mobileScoreEmoji, desktopScoreEmoji], "" standing for null
SummaryText(summaryColumn) ==
    summaryColumn.mobileScoreEmoji
    \o (IF summaryColumn.desktopScoreEmoji # ""
        THEN (IF Len(summaryColumn.mobileScoreEmoji) > 0 THEN "/" ELSE "")
             \o summaryColumn.desktopScoreEmoji
        ELSE "")

formatScoreRow(categories, mobileScores, desktopScores, hasMobile, hasDesktop, urlText, summaryColumn) ==
    IF Len(categories) = 0 THEN <<Fence \o "| No data available |" \o Fence>>
    ELSE <<Fence \o "|" \o RowCells(categories, mobileScores, desktopScores, hasMobile, hasDesktop)
               \o DeviceColumn(SummaryText(summaryColumn)),
           urlText \o Fence>>

RECURSIVE CategoryLegends(_)
\* categories.map(cat => icon + ' - ' + title).join(" . ") with the bullet separator
CategoryLegends(categories) ==
    IF categories = <<>> THEN ""
    ELSE getCategoryConfig(Head(categories)).icon \o " - "
         \o getCategoryConfig(Head(categories)).title
         \o (IF Len(categories) > 1 THEN " " \o Bullet \o " " ELSE "")
         \o CategoryLegends(Tail(categories))

generateLegend(categories, hasMobile, hasDesktop) ==
    <<"Legend: " \o CategoryLegends(categories)>>
    \o (IF hasMobile /\ hasDesktop THEN <<EmojiChart \o " Format: Mobile/Desktop scores">>
        ELSE IF hasMobile THEN <<EmojiChart \o " Showing Mobile scores">>
        ELSE IF hasDesktop THEN <<EmojiChart \o " Showing Desktop scores">>
        ELSE <<>>)

\* results.results.forEach(result => result.categories.forEach(category => ...)): the
\* inner loop.  category.id || category.title.toLowerCase() is category.id: the
\* category ids of the model are not empty.
RECURSIVE CollectCategories(_, _, _)
CollectCategories(acc, result, categories) ==
    IF categories = <<>> THEN acc
    ELSE LET category == Head(categories)
             categoryName == getNormalizedCategoryName(category.id)
             isMobile == result.deviceType = "mobile"
             old == ObjGet(acc.urlResults, result.url)
             new == IF isMobile
                    THEN [old EXCEPT !.mobileScores = ObjSet(@, categoryName, category.score)]
                    ELSE [old EXCEPT !.desktopScores = ObjSet(@, categoryName, category.score)]
         IN CollectCategories(
                [urlResults |-> ObjSet(acc.urlResults, result.url, new),
                 allCategories |-> IF categoryName \in Range(acc.allCategories)
                                   THEN acc.allCategories
                                   ELSE Append(acc.allCategories, categoryName),
                 hasMobileTests |-> acc.hasMobileTests \/ isMobile,
                 hasDesktopTests |-> acc.hasDesktopTests \/ ~isMobile],
                result, Tail(categories))

\* results.results.forEach(result => { if (!urlResults[url]) urlResults[url] = {...}; ... })
RECURSIVE CollectResults(_, _)
CollectResults(acc, rs) ==
    IF rs = <<>> THEN acc
    ELSE LET result == Head(rs)
             withUrl == IF ObjHas(acc.urlResults, result.url) THEN acc
                        ELSE [acc EXCEPT !.urlResults =
                                ObjSet(@, result.url, [mobileScores |-> <<>>,
                                                       desktopScores |-> <<>>])]
         IN CollectResults(CollectCategories(withUrl, result, result.categories), Tail(rs))

\* order.indexOf(name) for order = ['performance', 'seo', 'accessibility', 'best-practices']
OrderIndex(name) ==
    CASE name = "performance" -> 0
      [] name = "seo" -> 1
      [] name = "accessibility" -> 2
      [] name = "best-practices" -> 3
      [] OTHER -> -1

\* Insertion of x into s, sorted by OrderIndex, after the elements that compare equal.
RECURSIVE InsertByOrder(_, _)
InsertByOrder(s, x) ==
    IF s = <<>> THEN <<x>>
    ELSE IF OrderIndex(x) - OrderIndex(Head(s)) < 0 THEN <<x>> \o s
    ELSE <<Head(s)>> \o InsertByOrder(Tail(s), x)

RECURSIVE SortByOrderFrom(_, _)
SortByOrderFrom(acc, s) ==
    IF s = <<>> THEN acc ELSE SortByOrderFrom(InsertByOrder(acc, Head(s)), Tail(s))

\* Array.from(allCategories).sort((a, b) => order.indexOf(a) - order.indexOf(b)): the
\* sort is stable.
SortCategories(allCategories) == SortByOrderFrom(<<>>, allCategories)

SLACK_MESSAGE_CHAR_LIMIT == 3000

WarningBlock ==
    ContextBlock(<<EmojiWarning
                   \o " Some results were omitted due to Slack message size limitations">>)

\* The emoji of the trailing column of one URL's row: the average of the URL's scores
\* of each device tested, "" standing for null.
SummaryColumn(data, c) ==
    [mobileScoreEmoji |->
        IF c.hasMobileTests /\ Len(data.mobileScores) > 0
        THEN getScoreEmoji(SumSeq(ObjValues(data.mobileScores)), Len(data.mobileScores))
        ELSE "",
     desktopScoreEmoji |->
        IF c.hasDesktopTests /\ Len(data.desktopScores) > 0
        THEN getScoreEmoji(SumSeq(ObjValues(data.desktopScores)), Len(data.desktopScores))
        ELSE ""]

\* The section block of one URL: its score row.
ScoresBlock(url, data, c) ==
    SectionBlock(formatScoreRow(c.sortedCategories, data.mobileScores,
                                data.desktopScores, c.hasMobileTests,
                                c.hasDesktopTests, url, SummaryColumn(data, c)))

RECURSIVE RowLoopNoBreak(_, _, _, _)
RowLoopNoBreak(entries, bs, currentMessageLength, c) ==
    IF entries = <<>> THEN bs
    ELSE LET scoresBlock == ScoresBlock(Head(entries).k, Head(entries).v, c)
             blocksSize == JsonLength(<<scoresBlock>>)
         IN IF currentMessageLength + blocksSize > SLACK_MESSAGE_CHAR_LIMIT
            THEN RowLoopNoBreak(Tail(entries), Append(bs, WarningBlock),
                                currentMessageLength, c)
            ELSE RowLoopNoBreak(Tail(entries), Append(bs, scoresBlock),
                                currentMessageLength + blocksSize, c)

RECURSIVE RowLoop(_, _, _, _)
\* for (const [url, data] of Object.entries(urlResults)) { ... }: the blocks after the
\* loop, from the blocks bs and the counter currentMessageLength before it
RowLoop(entries, bs, currentMessageLength, c) ==
    IF entries = <<>> THEN bs
    ELSE LET scoresBlock == ScoresBlock(Head(entries).k, Head(entries).v, c)
             blocksSize == JsonLength(<<scoresBlock>>)
         IN IF currentMessageLength + blocksSize > SLACK_MESSAGE_CHAR_LIMIT
            THEN Append(bs, WarningBlock)
            ELSE RowLoop(Tail(entries), Append(bs, scoresBlock),
                         currentMessageLength + blocksSize, c)

\* for (const [category, score] of Object.entries(averageScores)) { best...; worst... }
RECURSIVE BestWorst(_, _)
BestWorst(acc, entries) ==
    IF entries = <<>> THEN acc
    ELSE LET category == Head(entries).k
             score == Head(entries).v
             a1 == IF score > acc.bestScore
                   THEN [acc EXCEPT !.bestScore = score, !.bestCategory = category]
                   ELSE acc
             a2 == IF score < a1.worstScore
                   THEN [a1 EXCEPT !.worstScore = score, !.worstCategory = category]
                   ELSE a1
         IN BestWorst(a2, Tail(entries))

\* for (const [category, mobileAvg] of Object.entries(scoresByDevice['mobile'] || {})):
\* the averages are the doubles nearest to hundredths, their difference and the
\* comparisons are those of binary64.
RECURSIVE BiggestGap(_, _, _)
BiggestGap(acc, mobileEntries, desktop) ==
    IF mobileEntries = <<>> THEN acc
    ELSE LET category == Head(mobileEntries).k
             mobileAvg == Head(mobileEntries).v
             desktopAvg == IF ObjHas(desktop, category) THEN ObjGet(desktop, category) ELSE 0
             gap == DoubleAbsDiff(DoubleLiteral(mobileAvg, 200),
                                  DoubleLiteral(desktopAvg, 200))
         IN BiggestGap(IF DoubleLess(acc.biggestGap, gap)
                       THEN [biggestGapCategory |-> category, biggestGap |-> gap,
                             mobileScore |-> mobileAvg, desktopScore |-> desktopAvg]
                       ELSE acc,
                       Tail(mobileEntries), desktop)

\* The blocks of the insights: the divider, the heading and the bullets.
InsightBlocks(summary, hasMobileTests, hasDesktopTests) ==
    IF Len(summary.averageScores) = 0 THEN <<>>
    ELSE LET bw == BestWorst([bestCategory |-> "", bestScore |-> 0,
                              worstCategory |-> "", worstScore |-> 200],
                             summary.averageScores)
             byDevice(d) == IF ObjHas(summary.scoresByDevice, d)
                            THEN ObjGet(summary.scoresByDevice, d) ELSE <<>>
             g == BiggestGap([biggestGapCategory |-> "", biggestGap |-> DoubleZero,
                              mobileScore |-> 0, desktopScore |-> 0],
                             byDevice("mobile"), byDevice("desktop"))
             insights ==
                <<Bullet \o " *Strongest Area:* " \o getCategoryConfig(bw.bestCategory).title
                      \o " at " \o formatScore(bw.bestScore),
                  Bullet \o " *Area for Improvement:* "
                      \o getCategoryConfig(bw.worstCategory).title
                      \o " at " \o formatScore(bw.worstScore)>>
                \o (IF /\ hasMobileTests /\ hasDesktopTests
                       /\ g.biggestGapCategory # ""
                       /\ DoubleLess(DoubleLiteral(1, 10), g.biggestGap)
                    THEN <<Bullet \o " *Device Gap:* "
                              \o getCategoryConfig(g.biggestGapCategory).title \o " is "
                              \o ToString(DoubleMathRound(DoubleTimes(g.biggestGap, 100)))
                              \o "% better on "
                              \o (IF g.mobileScore > g.desktopScore THEN "Mobile"
                                  ELSE "Desktop")>>
                    ELSE <<>>)
         IN <<DividerBlock>>
            \o (IF bw.bestCategory # "" /\ bw.worstCategory # ""
                THEN <<SectionBlock(<<"*Key Insights:*">>), SectionBlock(insights)>>
                ELSE <<>>)

\* The footer: the timestamp and, with GITHUB_REPOSITORY and GITHUB_RUN_ID, the link.
FooterBlock(e) ==
    ContextBlock(
        <<"Generated by Lighthouse CI Slack Reporter " \o MiddleDot \o " " \o e.now
          \o (IF e.GITHUB_REPOSITORY # "" /\ e.GITHUB_RUN_ID # ""
              THEN " " \o MiddleDot \o " <https://github.com/" \o e.GITHUB_REPOSITORY
                   \o "/actions/runs/" \o e.GITHUB_RUN_ID
                   \o "|Download full report from GitHub>"
              ELSE "")>>)

\* What the first loop of createSlackBlocks collects, with the sorted categories.
Collected(fr) ==
    LET acc == CollectResults([urlResults |-> <<>>, allCategories |-> <<>>,
                               hasMobileTests |-> FALSE, hasDesktopTests |-> FALSE],
                              fr.results)
    IN [urlResults |-> acc.urlResults,
        sortedCategories |-> SortCategories(acc.allCategories),
        hasMobileTests |-> acc.hasMobileTests,
        hasDesktopTests |-> acc.hasDesktopTests]

\* The blocks before the rows: header, summary, divider, legend, column header.
HeadBlocks(fr, t, c) ==
    <<HeaderBlock(<<t>>),
      SectionBlock(<<"*Summary:* Tested " \o ToString(fr.summary.totalUrls) \o " URLs with "
                     \o ToString(fr.summary.totalTests) \o " tests">>),
      DividerBlock,
      SectionBlock(generateLegend(c.sortedCategories, c.hasMobileTests, c.hasDesktopTests)),
      SectionBlock(generateCategoryHeaders(c.sortedCategories, c.hasMobileTests,
                                           c.hasDesktopTests))>>

\* createSlackBlocks with the time of the rendering in the header too
createSlackBlocksStamped(fr, t, e) ==
    LET c == Collected(fr)
        head == HeadBlocks(fr, t \o " " \o e.now, c)
        withRows == RowLoop(c.urlResults, head, JsonLength(head), c)
    IN withRows
       \o InsightBlocks(fr.summary, c.hasMobileTests, c.hasDesktopTests)
       \o <<FooterBlock(e)>>

\* createSlackBlocks(results, title), with the environment e it reads
createSlackBlocks(fr, t, e) ==
    LET c == Collected(fr)
        head == HeadBlocks(fr, t, c)
        withRows == RowLoop(c.urlResults, head, JsonLength(head), c)
    IN withRows
       \o InsightBlocks(fr.summary, c.hasMobileTests, c.hasDesktopTests)
       \o <<FooterBlock(e)>>

-----------------------------------------------------------------------------
(* SpecAgg: averageLighthouseResults applied to every list of at most      *)
(* MaxRuns runs of one (url, deviceType) pair.                             *)

MaxRuns == 3

PerfRaw == {120, 160, 180}      \* 0.6, 0.8, 0.9
SeoRaw == {160}                 \* 0.8

Perf(s) == [id |-> "performance", title |-> "Performance", score |-> s]
Seo(s) == [id |-> "seo", title |-> "SEO", score |-> s]

\* The category lists of one run (Object.entries of the report's categories).
RunCategories ==
    {<<Perf(s)>> : s \in PerfRaw} \cup {<<Seo(t)>> : t \in SeoRaw}
        \cup {<<Perf(s), Seo(t)>> : s \in PerfRaw, t \in SeoRaw}

\* reportUrl: the newest HTML file of the pair, '' when none was found.
ReportUrls == {"", "lighthouse-results/https___a_example-mobile.report.html"}

RunsOfPair ==
    {[url |-> "https://a.example", deviceType |-> "mobile", categories |-> c, reportUrl |-> r] :
        c \in RunCategories, r \in ReportUrls}

RunLists == UNION {[1..n -> RunsOfPair] : n \in 0..MaxRuns}

InitAgg ==
    /\ pc = "runs"
    /\ runs \in RunLists
    /\ averaged = Unused
    /\ results = Unused /\ errors = Unused /\ formatted = Unused
    /\ title = Unused /\ env = Unused /\ blocks = Unused
    /\ urls = Unused /\ deviceTypes = Unused /\ runsPerUrl = Unused
    /\ warmupRuns = Unused /\ batchStart = Unused /\ task = Unused
    /\ inputs = Unused /\ log = Unused /\ attempts = Unused /\ sent = Unused
    /\ audit = Unused

\* const averagedResult = averageLighthouseResults(runResults)
Average ==
    /\ pc = "runs"
    /\ averaged' = averageLighthouseResults(runs)
    /\ pc' = "averaged"
    /\ UNCHANGED <<runs, results, errors, formatted, title, env, blocks,
                   urls, deviceTypes, runsPerUrl, warmupRuns, batchStart, task,
                   runVars>>

NextAgg == Average

SpecAgg == InitAgg /\ [][NextAgg]_vars

\* The scores the runs rs hold for category id, as the set of their places.
ScorePlaces(rs, id) ==
    {<<i, j>> \in (1..Len(rs)) \X (1..2) :
        j <= Len(rs[i].categories) /\ rs[i].categories[j].id = id}
ScoreAt(rs, ij) == rs[ij[1]].categories[ij[2]].score

\* x is the k-th smallest of the scores at the places I.
IsKthSmallest(rs, I, k, x) ==
    /\ \E ij \in I : ScoreAt(rs, ij) = x
    /\ Cardinality({ij \in I : ScoreAt(rs, ij) < x}) < k
    /\ Cardinality({ij \in I : ScoreAt(rs, ij) <= x}) >= k

\* m is the median of the scores at the places I.
IsMedian(rs, I, m) ==
    LET n == Cardinality(I)
    IN IF n % 2 = 1
       THEN IsKthSmallest(rs, I, (n + 1) \div 2, m)
       ELSE \E lo, hi \in {ScoreAt(rs, ij) : ij \in I} :
               /\ IsKthSmallest(rs, I, n \div 2, lo)
               /\ IsKthSmallest(rs, I, n \div 2 + 1, hi)
               /\ 2 * m = lo + hi

\* C1: for more than one run, the aggregated score of every aggregated category id is
\* the median of the scores collected for that id: the middle value of the sorted
\* scores for an odd count, the average of the two middle values for an even count.
C1_MedianOfScores ==
    (pc = "averaged" /\ Len(runs) > 1) =>
        /\ ~averaged.threw
        /\ \A c \in Range(averaged.value.categories) :
              IsMedian(runs, ScorePlaces(runs, c.id), c.score)

\* C1 witness: performance scores [0.9, 0.6] (unsorted, even count) aggregate to 0.75.
C1_Witness ==
    /\ pc = "averaged"
    /\ Len(runs) = 2
    /\ runs[1].categories = <<Perf(180)>>
    /\ runs[2].categories = <<Perf(120)>>
    /\ averaged.value.categories = <<Perf(150)>>

\* The runs list the same category ids with the same titles, and the same reportUrl.
UniformRuns(rs) ==
    \A i, j \in 1..Len(rs) :
        /\ [k \in 1..Len(rs[i].categories) |->
                <<rs[i].categories[k].id, rs[i].categories[k].title>>]
           = [k \in 1..Len(rs[j].categories) |->
                <<rs[j].categories[k].id, rs[j].categories[k].title>>]
        /\ rs[i].reportUrl = rs[j].reportUrl

\* C2 as claimed: every permutation of the runs gives the same aggregated result
\* (category ids, titles, scores and reportUrl), whatever categories the runs hold.
C2_PermutationInvariant ==
    pc = "averaged" =>
        \A p \in Perms(Len(runs)) : averageLighthouseResults(Permute(runs, p)) = averaged

\* C2 amended: for every permutation of the runs, every category id present in both
\* results has the same score, and when all runs list the same category ids, titles and
\* reportUrl the two results are equal.
C2_PermutationInvariantScores ==
    (pc = "averaged" /\ ~averaged.threw) =>
        \A p \in Perms(Len(runs)) :
            LET other == averageLighthouseResults(Permute(runs, p)).value
            IN /\ \A c \in Range(other.categories), d \in Range(averaged.value.categories) :
                     c.id = d.id => c.score = d.score
               /\ UniformRuns(runs) => other = averaged.value

\* C2 witness: three runs with the same categories and different scores, out of order.
C2_Witness ==
    /\ pc = "averaged"
    /\ Len(runs) = 3
    /\ UniformRuns(runs)
    /\ runs[1].categories = <<Perf(180), Seo(160)>>
    /\ runs[2].categories = <<Perf(120), Seo(160)>>
    /\ runs[3].categories = <<Perf(160), Seo(160)>>
    /\ averaged.value.categories = <<Perf(160), Seo(160)>>

\* C12: for more than one run, the aggregated result holds exactly the category ids of
\* the first run, each once; the score of each is the median of the scores of the runs
\* that hold the id (a run without the id adds no score), its title is the title of
\* the first run's entry, and url, deviceType and reportUrl are those of the first run.
C12_FirstRunCategories ==
    (pc = "averaged" /\ Len(runs) > 1) =>
        /\ ~averaged.threw
        /\ averaged.value.url = runs[1].url
        /\ averaged.value.deviceType = runs[1].deviceType
        /\ averaged.value.reportUrl = runs[1].reportUrl
        /\ Len(averaged.value.categories) = Len(runs[1].categories)
        /\ {c.id : c \in Range(averaged.value.categories)}
              = {c.id : c \in Range(runs[1].categories)}
        /\ \A c \in Range(averaged.value.categories) :
              /\ \E f \in Range(runs[1].categories) : f.id = c.id /\ f.title = c.title
              /\ IsMedian(runs, ScorePlaces(runs, c.id), c.score)

\* C12 witness: the first run holds performance only, the second seo only, the third
\* both: seo is dropped, and the performance score is the median of the first and the
\* third run's scores, 0.6 and 0.9.
C12_Witness ==
    /\ pc = "averaged"
    /\ Len(runs) = 3
    /\ runs[1].categories = <<Perf(120)>>
    /\ runs[2].categories = <<Seo(160)>>
    /\ runs[3].categories = <<Perf(180), Seo(160)>>
    /\ runs[1].reportUrl # runs[3].reportUrl
    /\ averaged.value.categories = <<Perf(150)>>
    /\ averaged.value.reportUrl = runs[1].reportUrl

\* C13: with no run the aggregator throws 'No results to average' and returns no
\* result; with exactly one run it returns that run, unchanged.
C13_EmptyAndSingleRun ==
    pc = "averaged" =>
        /\ Len(runs) = 0 => (averaged.threw /\ averaged.error = "No results to average")
        /\ Len(runs) = 1 => (~averaged.threw /\ averaged.value = runs[1])

\* C13 witness: one run with a report file is returned with its categories and its
\* reportUrl.
C13_Witness ==
    /\ pc = "averaged"
    /\ Len(runs) = 1
    /\ runs[1].categories = <<Perf(160), Seo(160)>>
    /\ runs[1].reportUrl # ""
    /\ averaged = Return(runs[1])

\* C13 witness, the empty list: the outcome is the error.
C13_WitnessEmpty ==
    /\ pc = "averaged"
    /\ runs = <<>>
    /\ averaged = Throw("No results to average")

-----------------------------------------------------------------------------
(* SpecSummary: formatLighthouseResults applied to every list of at most   *)
(* MaxResults canonical results over two URLs and two device types.        *)

MaxResults == 3

UrlA == "https://a.example"
UrlB == "https://b.example"

\* Category lists of a canonical result: a score may be a multiple of 0.005.
CanonCategories == {<<>>, <<Perf(160)>>, <<Seo(180)>>, <<Perf(181), Seo(190)>>}

CanonResults ==
    {[url |-> u, deviceType |-> d, categories |-> c, reportUrl |-> ""] :
        u \in {UrlA, UrlB}, d \in {"mobile", "desktop"}, c \in CanonCategories}

ResultLists == UNION {[1..n -> CanonResults] : n \in 0..MaxResults}

InitSummary ==
    /\ pc = "results"
    /\ results \in ResultLists
    /\ formatted = Unused
    /\ runs = Unused /\ averaged = Unused /\ errors = Unused
    /\ title = Unused /\ env = Unused /\ blocks = Unused
    /\ urls = Unused /\ deviceTypes = Unused /\ runsPerUrl = Unused
    /\ warmupRuns = Unused /\ batchStart = Unused /\ task = Unused
    /\ inputs = Unused /\ log = Unused /\ attempts = Unused /\ sent = Unused
    /\ audit = Unused

\* formattedResults = formatLighthouseResults(lighthouseResults)
Format ==
    /\ pc = "results"
    /\ formatted' = formatLighthouseResults(results)
    /\ pc' = "formatted"
    /\ UNCHANGED <<runs, averaged, results, errors, title, env, blocks,
                   urls, deviceTypes, runsPerUrl, warmupRuns, batchStart, task,
                   runVars>>

NextSummary == Format

SpecSummary == InitSummary /\ [][NextSummary]_vars

\* The category ids that occur in the results rs.
IdsIn(rs) == {rs[i].categories[j].id : <<i, j>> \in
                {ij \in (1..Len(rs)) \X (1..2) : ij[2] <= Len(rs[ij[1]].categories)}}

RECURSIVE SumAt(_, _)
SumAt(rs, I) ==
    IF I = {} THEN 0
    ELSE LET ij == CHOOSE x \in I : TRUE IN ScoreAt(rs, ij) + SumAt(rs, I \ {ij})

\* v (in units) is the mean of the scores at the places I rounded to 2 decimals:
\* v is h hundredths with h - 1/2 <= 100 * mean < h + 1/2.
IsRoundedMean(rs, I, v) ==
    LET n == Cardinality(I)
        sum == SumAt(rs, I)
    IN \E h \in 0..100 :
          /\ v = 2 * h
          /\ (2 * h - 1) * n <= sum
          /\ sum < (2 * h + 1) * n

\* The object o maps exactly the ids of rs, each to the rounded mean of its scores in rs.
IsAverageOf(o, rs) ==
    /\ {o[i].k : i \in 1..Len(o)} = IdsIn(rs)
    /\ \A i, j \in 1..Len(o) : o[i].k = o[j].k => i = j
    /\ \A i \in 1..Len(o) : IsRoundedMean(rs, ScorePlaces(rs, o[i].k), o[i].v)

\* C7: totalUrls is the number of distinct url values and totalTests the length of
\* the list.
C7_Totals ==
    pc = "formatted" =>
        /\ formatted.summary.totalUrls = Cardinality({results[i].url : i \in 1..Len(results)})
        /\ formatted.summary.totalTests = Len(results)

\* C7 witness: (A, mobile), (A, desktop), (B, mobile) give totalUrls = 2, totalTests = 3.
C7_Witness ==
    /\ pc = "formatted"
    /\ [i \in 1..Len(results) |-> <<results[i].url, results[i].deviceType>>]
         = <<<<UrlA, "mobile">>, <<UrlA, "desktop">>, <<UrlB, "mobile">>>>
    /\ formatted.summary.totalUrls = 2
    /\ formatted.summary.totalTests = 3

C10_MinMax ==
    pc = "formatted" =>
        LET mins == formatted.summary.minScores
            maxs == formatted.summary.maxScores
            all(id) == {ScoreAt(results, ij) : ij \in ScorePlaces(results, id)}
        IN /\ ObjKeys(mins) = ObjKeys(formatted.summary.averageScores)
           /\ ObjKeys(maxs) = ObjKeys(formatted.summary.averageScores)
           /\ {mins[i].k : i \in 1..Len(mins)} = IdsIn(results)
           /\ \A i \in 1..Len(mins) :
                 /\ mins[i].v \in all(mins[i].k)
                 /\ \A x \in all(mins[i].k) : mins[i].v <= x
                 /\ maxs[i].v \in all(maxs[i].k)
                 /\ \A x \in all(maxs[i].k) : x <= maxs[i].v
                 /\ mins[i].v <= maxs[i].v

\* C10 witness: performance 0.905 on (A, desktop) and 0.8 on (B, mobile): min 0.8 and
\* max 0.905 are taken across devices and URLs.
C10_Witness ==
    /\ pc = "formatted"
    /\ Len(results) = 2
    /\ results[1].url = UrlA /\ results[1].deviceType = "desktop"
    /\ results[1].categories = <<Perf(181), Seo(190)>>
    /\ results[2].url = UrlB /\ results[2].deviceType = "mobile"
    /\ results[2].categories = <<Perf(160)>>
    /\ ObjGet(formatted.summary.minScores, "performance") = 160
    /\ ObjGet(formatted.summary.maxScores, "performance") = 181

-----------------------------------------------------------------------------
(* SpecRender: the summary and the blocks of every list of at most         *)
(* MaxRenderResults canonical results of distinct (url, deviceType) pairs  *)
(* over three URLs, two of them long enough for the rows to reach the      *)
(* message size limit.                                                     *)

MaxRenderResults == 3

RECURSIVE Repeat(_, _)
\* str.repeat(n)
Repeat(str, n) ==
    IF n <= 0 THEN ""
    ELSE IF n % 2 = 0 THEN LET half == Repeat(str, n \div 2) IN half \o half
    ELSE str \o Repeat(str, n - 1)

\* The length of the query string of the long URLs: two rows of such URLs, with one
\* category and mobile results only, bring the size counter to the limit exactly.
LongQuery == 1194

UrlLongB == "https://b.example/search?q=" \o Repeat("b", LongQuery)
UrlLongC == "https://c.example/search?q=" \o Repeat("c", LongQuery)

RenderUrls == {UrlA, UrlLongB, UrlLongC}

RenderCategories == {<<>>, <<Perf(100)>>, <<Perf(180), Seo(190)>>}

RenderResults ==
    {[url |-> u, deviceType |-> d, categories |-> c, reportUrl |-> ""] :
        u \in RenderUrls, d \in {"mobile", "desktop"}, c \in RenderCategories}

\* Lists of results of distinct (url, deviceType) pairs.
RenderResultLists ==
    UNION {{rs \in [1..n -> RenderResults] :
                \A i, j \in 1..n :
                    (rs[i].url = rs[j].url /\ rs[i].deviceType = rs[j].deviceType) => i = j} :
           n \in 1..MaxRenderResults}

Titles == {"Lighthouse Test Results"}

\* process.env of a workflow run, and the time of the rendering
Envs == {[now |-> "2026-01-01T00:00:00.000Z", GITHUB_REPOSITORY |-> "owner/repo",
          GITHUB_RUN_ID |-> "4242"]}

InitRender ==
    /\ pc = "results"
    /\ results \in RenderResultLists
    /\ title \in Titles
    /\ env \in Envs
    /\ formatted = Unused /\ blocks = Unused
    /\ runs = Unused /\ averaged = Unused /\ errors = Unused
    /\ urls = Unused /\ deviceTypes = Unused /\ runsPerUrl = Unused
    /\ warmupRuns = Unused /\ batchStart = Unused /\ task = Unused
    /\ inputs = Unused /\ log = Unused /\ attempts = Unused /\ sent = Unused
    /\ audit = Unused

\* sendSlackReport: const blocks = createSlackBlocks(results, title)
Render ==
    /\ pc = "formatted"
    /\ blocks' = createSlackBlocks(formatted, title, env)
    /\ pc' = "rendered"
    /\ UNCHANGED <<runs, averaged, results, errors, formatted, title, env,
                   urls, deviceTypes, runsPerUrl, warmupRuns, batchStart, task,
                   runVars>>

NextRender == Format \/ Render

SpecRender == InitRender /\ [][NextRender]_vars

-----------------------------------------------------------------------------
(* createSlackBlocks: the size limit of the rows                           *)

\* The blocks of the URLs' rows, in the order of the URLs' first results.
RowBlocks(fr) ==
    LET c == Collected(fr)
    IN [i \in 1..Len(c.urlResults) |-> ScoresBlock(c.urlResults[i].k, c.urlResults[i].v, c)]

\* The size counter once the first k rows are counted: the serialized head blocks and
\* each row serialized as a list of its own.
CounterAfter(fr, t, k) ==
    JsonLength(HeadBlocks(fr, t, Collected(fr)))
        + SumSeq([i \in 1..k |-> JsonLength(<<RowBlocks(fr)[i]>>)])

\* The rows that bring the counter above the limit.
Overflowing(fr, t) ==
    {k \in 1..Len(RowBlocks(fr)) : CounterAfter(fr, t, k) > SLACK_MESSAGE_CHAR_LIMIT}

\* The blocks that follow the rows and the warning.
TailBlocks(fr, e) ==
    LET c == Collected(fr)
    IN InsightBlocks(fr.summary, c.hasMobileTests, c.hasDesktopTests) \o <<FooterBlock(e)>>

\* C3: the rendered blocks are the head blocks, then the rows of the URLs in URL
\* order up to, and without, the first row that brings the size counter above 3000,
\* then exactly one warning block in the place of that row and no row after it, then
\* the insights and the footer; when no row brings the counter above 3000 every row
\* is there and there is no warning block.
C3_TruncationWithWarning ==
    pc = "rendered" =>
        LET rows == RowBlocks(formatted)
            over == Overflowing(formatted, title)
            shown == IF over = {} THEN Len(rows)
                     ELSE (CHOOSE k \in over : \A j \in over : k <= j) - 1
        IN /\ blocks = HeadBlocks(formatted, title, Collected(formatted))
                           \o SubSeq(rows, 1, shown)
                           \o (IF over = {} THEN <<>> ELSE <<WarningBlock>>)
                           \o TailBlocks(formatted, env)
           /\ over = {} => \A i \in 1..Len(blocks) : blocks[i] # WarningBlock

\* Three URLs, the first one with its row, the warning in the place of the second one's
\* row, and the third one, whose short row alone would have fitted, without a row.
C3_Witness ==
    /\ pc = "rendered"
    /\ Len(RowBlocks(formatted)) = 3
    /\ blocks[6] = RowBlocks(formatted)[1]
    /\ blocks[7] = WarningBlock
    /\ 1 \notin Overflowing(formatted, title)
    /\ 2 \in Overflowing(formatted, title)
    /\ CounterAfter(formatted, title, 1) + JsonLength(<<RowBlocks(formatted)[3]>>)
           <= SLACK_MESSAGE_CHAR_LIMIT
    /\ \A i \in 1..Len(blocks) : blocks[i] # RowBlocks(formatted)[3]

\* C4: the serialized size of the rendered blocks is at most 3000.
C4_TotalSizeBounded ==
    pc = "rendered" => JsonLength(blocks) <= SLACK_MESSAGE_CHAR_LIMIT

RECURSIVE PlaceholderCells(_, _, _, _)
\* The cells of a row in which a category the URL has no score for, on either device,
\* is the placeholder, and every other cell is as the renderer formats it.
PlaceholderCells(categories, data, c, placeholder) ==
    IF categories = <<>> THEN ""
    ELSE CenterInColumn(
             IF /\ ~ObjHas(data.mobileScores, Head(categories))
                /\ ~ObjHas(data.desktopScores, Head(categories))
             THEN placeholder
             ELSE ScoreText(Head(categories), data.mobileScores, data.desktopScores,
                            c.hasMobileTests, c.hasDesktopTests)) \o "|"
         \o PlaceholderCells(Tail(categories), data, c, placeholder)

\* C6: in every rendered row of a URL, the cell of a category the URL has no score
\* for is the placeholder "N/A" or "-", never a percentage.
C6_MissingCategoryPlaceholder ==
    pc = "rendered" =>
        LET c == Collected(formatted)
        IN \A i \in 1..Len(c.urlResults) :
              \A b \in 1..Len(blocks) :
                 (/\ blocks[b].type = "section"
                  /\ Len(blocks[b].text) = 2
                  /\ blocks[b].text[2] = c.urlResults[i].k \o Fence)
                 => \E placeholder \in {"N/A", "-"} :
                       blocks[b].text[1] =
                           Fence \o "|"
                           \o PlaceholderCells(c.sortedCategories, c.urlResults[i].v, c,
                                               placeholder)
                           \o DeviceColumn(SummaryText(SummaryColumn(c.urlResults[i].v, c)))

-----------------------------------------------------------------------------
(* Spec: runLighthouseTests over batches of concurrent (url, deviceType)    *)
(* pairs, then formatLighthouseResults and createSlackBlocks.  A step is    *)
(* what one pair executes between two awaits.                               *)

BATCH_SIZE == 3

MaxUrls == 4
MaxRunsPerUrl == 2
MaxWarmupRuns == 1

\* The k-th URL of the input.
UrlOf(k) ==
    CASE k = 1 -> UrlLongB
      [] k = 2 -> UrlLongC
      [] k = 3 -> UrlA
      [] k = 4 -> UrlB
      [] OTHER -> "https://u" \o ToString(k) \o ".example"

\* The pairs of the input: at most one full batch of one device type and one pair of
\* the batch after it.
MaxPairs == BATCH_SIZE + 1

UrlLists == {[k \in 1..n |-> UrlOf(k)] : n \in 1..MaxUrls}

\* device_types: validateInputs accepts a device type given twice, which the
\* specification tries with a single URL.
DeviceLists == {<<"mobile">>, <<"desktop">>, <<"mobile", "desktop">>, <<"mobile", "mobile">>}

\* What a successful audit number run of the u-th URL on the d-th device type resolves
\* to: the performance score of the report differs from one run to the next.
runLighthouseForUrl(u, d, run) ==
    [url |-> urls[u], deviceType |-> deviceTypes[d],
     categories |-> <<Perf(100 + 20 * ((u + 2 * d) % 4) + 20 * (run % 2)),
                      Seo(170 + 10 * (u % 3))>>,
     reportUrl |-> ""]

\* The error a failed audit rejects with.
AuditError(u, d, run) == [url |-> urls[u], deviceType |-> deviceTypes[d], run |-> run]

EmptyTasks == [p \in {} |-> 0]

\* urls.slice(i, i + BATCH_SIZE) x deviceTypes, as pairs of indices
TaskPairs(i) ==
    {<<u, d>> : u \in (i + 1)..Min2(i + BATCH_SIZE, Len(urls)), d \in 1..Len(deviceTypes)}

Settled == [phase |-> "settled", n |-> 0, runResults |-> <<>>]

\* for (let run = 1; run <= runsPerUrl; run++): the entry of the loop
AfterWarmups ==
    IF runsPerUrl >= 1 THEN [phase |-> "run", n |-> 1, runResults |-> <<>>] ELSE Settled

\* if (warmupRuns > 0) for (let warmup = 1; ...): the first await of a pair
FirstStep ==
    IF warmupRuns > 0 THEN [phase |-> "warmup", n |-> 1, runResults |-> <<>>]
    ELSE AfterWarmups

\* The loop over the batches at i: the pairs of the next batch start, or the function
\* returns results, or throws when there is none.
BeginBatch(i) ==
    /\ batchStart' = i
    /\ IF i < Len(urls)
       THEN /\ task' = [p \in TaskPairs(i) |-> FirstStep]
            /\ pc' = "batch"
       ELSE /\ task' = EmptyTasks
            /\ pc' = IF Len(results) = 0 THEN "threw" ELSE "results"

Init ==
    /\ pc = "start"
    /\ urls \in UrlLists
    /\ deviceTypes \in DeviceLists
    /\ Len(urls) * Len(deviceTypes) <= MaxPairs
    /\ deviceTypes = <<"mobile", "mobile">> => Len(urls) = 1
    /\ runsPerUrl \in 0..MaxRunsPerUrl
    /\ warmupRuns \in 0..MaxWarmupRuns
    /\ results = <<>> /\ errors = <<>>
    /\ batchStart = 0 /\ task = EmptyTasks
    /\ inputs = Unused /\ log = Unused /\ attempts = Unused /\ sent = Unused
    /\ audit = Unused
    /\ title \in Titles
    /\ env \in Envs
    /\ formatted = Unused /\ blocks = Unused
    /\ runs = Unused /\ averaged = Unused

\* runLighthouseTests(...): results = [], errors = [], the first batch
StartTests ==
    /\ pc = "start"
    /\ BeginBatch(0)
    /\ UNCHANGED <<runs, averaged, results, errors, formatted, title, env, blocks,
                   urls, deviceTypes, runsPerUrl, warmupRuns,
                   runVars>>

\* One warmup audit of pair p whose result, when it succeeds, is kept with the run
\* results of the pair
WarmupKept(p) ==
    /\ pc = "batch"
    /\ task[p].phase = "warmup"
    /\ \E succeeded \in BOOLEAN :
          LET rr == IF succeeded
                    THEN Append(task[p].runResults, runLighthouseForUrl(p[1], p[2], 0))
                    ELSE task[p].runResults
          IN task' = [task EXCEPT ![p] = IF task[p].n < warmupRuns
                                         THEN [@ EXCEPT !.n = @ + 1, !.runResults = rr]
                                         ELSE IF runsPerUrl >= 1
                                         THEN [phase |-> "run", n |-> 1, runResults |-> rr]
                                         ELSE Settled]
    /\ UNCHANGED <<pc, runs, averaged, results, errors, formatted, title, env, blocks,
                   urls, deviceTypes, runsPerUrl, warmupRuns, batchStart,
                   runVars>>

\* One warmup audit of pair p: its result is dropped and its failure is caught.
Warmup(p) ==
    /\ pc = "batch"
    /\ task[p].phase = "warmup"
    /\ \E succeeded \in BOOLEAN :
          task' = [task EXCEPT ![p] = IF task[p].n < warmupRuns
                                      THEN [@ EXCEPT !.n = @ + 1]
                                      ELSE AfterWarmups]
    /\ UNCHANGED <<pc, runs, averaged, results, errors, formatted, title, env, blocks,
                   urls, deviceTypes, runsPerUrl, warmupRuns, batchStart,
                   runVars>>

\* The end of the loop of pair p, pushing every run result as it is
PushEveryRun(p, rr) ==
    /\ results' = results \o rr
    /\ task' = [task EXCEPT ![p] = Settled]

\* The end of the loop of pair p with the run results rr:
\* if (runResults.length > 0) results.push(averageLighthouseResults(runResults))
PushAveraged(p, rr) ==
    /\ results' = IF Len(rr) > 0 THEN Append(results, averageLighthouseResults(rr).value)
                  ELSE results
    /\ task' = [task EXCEPT ![p] = Settled]

\* A measured audit of pair p resolves: runResults.push(result), then the next run or
\* the end of the loop.
RunSucceeds(p) ==
    /\ pc = "batch"
    /\ task[p].phase = "run"
    /\ LET run == task[p].n
           rr == Append(task[p].runResults, runLighthouseForUrl(p[1], p[2], run))
       IN IF run < runsPerUrl
          THEN /\ task' = [task EXCEPT ![p] = [phase |-> "run", n |-> run + 1,
                                               runResults |-> rr]]
               /\ UNCHANGED results
          ELSE PushAveraged(p, rr)
    /\ UNCHANGED <<pc, runs, averaged, errors, formatted, title, env, blocks,
                   urls, deviceTypes, runsPerUrl, warmupRuns, batchStart,
                   runVars>>

\* A measured audit of pair p rejects and no error is kept for the pair
RunFailsUncounted(p) ==
    /\ pc = "batch"
    /\ task[p].phase = "run"
    /\ LET run == task[p].n
           rr == task[p].runResults
       IN IF run < runsPerUrl
          THEN /\ task' = [task EXCEPT ![p] = [@ EXCEPT !.n = run + 1]]
               /\ UNCHANGED <<results, errors>>
          ELSE /\ PushAveraged(p, rr)
               /\ UNCHANGED errors
    /\ UNCHANGED <<pc, runs, averaged, formatted, title, env, blocks,
                   urls, deviceTypes, runsPerUrl, warmupRuns, batchStart,
                   runVars>>

\* A measured audit of pair p rejects, its retries included: the catch block, then the
\* next run or the end of the loop.
RunFails(p) ==
    /\ pc = "batch"
    /\ task[p].phase = "run"
    /\ LET run == task[p].n
           rr == task[p].runResults
       IN IF run = runsPerUrl /\ Len(rr) = 0
          THEN /\ errors' = Append(errors, AuditError(p[1], p[2], run))
               /\ task' = [task EXCEPT ![p] = Settled]
               /\ UNCHANGED results
          ELSE IF run < runsPerUrl
          THEN /\ task' = [task EXCEPT ![p] = [@ EXCEPT !.n = run + 1]]
               /\ UNCHANGED <<results, errors>>
          ELSE /\ PushAveraged(p, rr)
               /\ UNCHANGED errors
    /\ UNCHANGED <<pc, runs, averaged, formatted, title, env, blocks,
                   urls, deviceTypes, runsPerUrl, warmupRuns, batchStart,
                   runVars>>

\* The next batch starts as soon as one pair of the batch has settled
BatchSettledByAny ==
    /\ pc = "batch"
    /\ \E p \in DOMAIN task : task[p].phase = "settled"
    /\ BeginBatch(batchStart + BATCH_SIZE)
    /\ UNCHANGED <<runs, averaged, results, errors, formatted, title, env, blocks,
                   urls, deviceTypes, runsPerUrl, warmupRuns,
                   runVars>>

\* await Promise.all(batchPromises) resolves: i += BATCH_SIZE
BatchSettled ==
    /\ pc = "batch"
    /\ \A p \in DOMAIN task : task[p].phase = "settled"
    /\ BeginBatch(batchStart + BATCH_SIZE)
    /\ UNCHANGED <<runs, averaged, results, errors, formatted, title, env, blocks,
                   urls, deviceTypes, runsPerUrl, warmupRuns,
                   runVars>>

Next ==
    \/ StartTests
    \/ \E p \in DOMAIN task : Warmup(p)
    \/ \E p \in DOMAIN task : RunSucceeds(p)
    \/ \E p \in DOMAIN task : RunFails(p)
    \/ BatchSettled
    \/ Format
    \/ Render

Spec == Init /\ [][Next]_vars

\* The results rs in the order the pairs are listed in: by URL, then by device type.
InScheduledOrder(rs) ==
    LET D == Len(deviceTypes)
        ofPair(k) == SelectSeq(rs, LAMBDA r : /\ r.url = urls[((k - 1) \div D) + 1]
                                              /\ r.deviceType = deviceTypes[((k - 1) % D) + 1])
        upTo[k \in 0..(Len(urls) * D)] == IF k = 0 THEN <<>> ELSE upTo[k - 1] \o ofPair(k)
    IN upTo[Len(urls) * D]

\* C5: whatever the order in which the pairs pushed their results, the rendered blocks
\* are the blocks of the same results taken in the order the pairs are listed in.
C5_CompletionOrderIndependent ==
    pc = "rendered" =>
        blocks = createSlackBlocks(formatLighthouseResults(InScheduledOrder(results)),
                                   title, env)

-----------------------------------------------------------------------------
(* SpecDouble: formatLighthouseResults, its averages evaluated in          *)
(* binary64, applied to every list of at most MaxDoubleResults single-run  *)
(* results with a performance score in hundredths.                         *)

MaxDoubleResults == 4

\* 0.5, 0.7, 0.8, 0.9
DoubleScores == {100, 140, 160, 180}

\* The i-th result of the list: the URLs alternate, the device types by two.
DoubleResult(i, score) ==
    [url |-> IF i % 2 = 1 THEN UrlA ELSE UrlB,
     deviceType |-> IF ((i - 1) \div 2) % 2 = 0 THEN "mobile" ELSE "desktop",
     categories |-> <<Perf(score)>>, reportUrl |-> ""]

DoubleResultLists ==
    UNION {{[i \in 1..n |-> DoubleResult(i, f[i])] : f \in [1..n -> DoubleScores]} :
           n \in 1..MaxDoubleResults}

InitDouble ==
    /\ pc = "results"
    /\ results \in DoubleResultLists
    /\ formatted = Unused
    /\ runs = Unused /\ averaged = Unused /\ errors = Unused
    /\ title = Unused /\ env = Unused /\ blocks = Unused
    /\ urls = Unused /\ deviceTypes = Unused /\ runsPerUrl = Unused
    /\ warmupRuns = Unused /\ batchStart = Unused /\ task = Unused
    /\ inputs = Unused /\ log = Unused /\ attempts = Unused /\ sent = Unused
    /\ audit = Unused

\* formattedResults = formatLighthouseResults(lighthouseResults)
FormatDouble ==
    /\ pc = "results"
    /\ formatted' = formatLighthouseResultsDouble(results)
    /\ pc' = "formatted"
    /\ UNCHANGED <<runs, averaged, results, errors, title, env, blocks,
                   urls, deviceTypes, runsPerUrl, warmupRuns, batchStart, task,
                   runVars>>

NextDouble == FormatDouble

SpecDouble == InitDouble /\ [][NextDouble]_vars

\* The values of the objects a and b are the same, key by key.
SameValues(a, b) ==
    /\ Range(ObjKeys(a)) = Range(ObjKeys(b))
    /\ \A k \in Range(ObjKeys(a)) : ObjGet(a, k) = ObjGet(b, k)

\* The values of the nested objects a and b are the same, key by key.
SameNestedValues(a, b) ==
    /\ Range(ObjKeys(a)) = Range(ObjKeys(b))
    /\ \A k \in Range(ObjKeys(a)) : SameValues(ObjGet(a, k), ObjGet(b, k))

\* The summaries s and t hold the same values.
SameSummary(s, t) ==
    /\ s.totalUrls = t.totalUrls
    /\ s.totalTests = t.totalTests
    /\ SameValues(s.averageScores, t.averageScores)
    /\ SameValues(s.minScores, t.minScores)
    /\ SameValues(s.maxScores, t.maxScores)
    /\ SameNestedValues(s.scoresByDevice, t.scoresByDevice)
    /\ SameNestedValues(s.scoresByUrl, t.scoresByUrl)

\* C11: the summary of the results holds the same values as the summary of every
\* permutation of the results, the averages being evaluated as the code evaluates
\* them, in binary64.
C11_SummaryPermutationInvariant ==
    pc = "formatted" =>
        \A p \in Perms(Len(results)) :
            SameSummary(formatted.summary,
                        formatLighthouseResultsDouble(Permute(results, p)).summary)


-----------------------------------------------------------------------------
(* SpecTable: the summary and the blocks of every list of at most          *)
(* MaxTableResults results of distinct (url, deviceType) pairs over two    *)
(* short URLs, with averages of 0 and of 1, categories tested on one       *)
(* device only and category ids outside the preferred order.               *)

MaxTableResults == 2

Pwa(s) == [id |-> "pwa", title |-> "PWA", score |-> s]
Custom(s) == [id |-> "custom", title |-> "Custom", score |-> s]

TableCategories ==
    {<<Perf(0)>>, <<Perf(200)>>, <<Perf(140)>>, <<Perf(160)>>, <<Seo(100)>>,
     <<Pwa(180), Custom(120), Perf(180)>>}

TableResults ==
    {[url |-> u, deviceType |-> d, categories |-> c, reportUrl |-> ""] :
        u \in {UrlA, UrlB}, d \in {"mobile", "desktop"}, c \in TableCategories}

TableResultLists ==
    UNION {{rs \in [1..n -> TableResults] :
                \A i, j \in 1..n :
                    (rs[i].url = rs[j].url /\ rs[i].deviceType = rs[j].deviceType) => i = j} :
           n \in 1..MaxTableResults}

InitTable ==
    /\ pc = "results"
    /\ results \in TableResultLists
    /\ title \in Titles
    /\ env \in Envs
    /\ formatted = Unused /\ blocks = Unused
    /\ runs = Unused /\ averaged = Unused /\ errors = Unused
    /\ urls = Unused /\ deviceTypes = Unused /\ runsPerUrl = Unused
    /\ warmupRuns = Unused /\ batchStart = Unused /\ task = Unused
    /\ inputs = Unused /\ log = Unused /\ attempts = Unused /\ sent = Unused
    /\ audit = Unused

NextTable == Format \/ Render

SpecTable == InitTable /\ [][NextTable]_vars

\* The key of the first entry of the object o whose value is v.
FirstKeyWith(o, v) ==
    o[CHOOSE i \in 1..Len(o) : o[i].v = v /\ \A j \in 1..(i - 1) : o[j].v # v].k

\* The two bullets every insights section starts with, for the categories best and worst.
StrongestLine(o, best) ==
    Bullet \o " *Strongest Area:* " \o getCategoryConfig(best).title
    \o " at " \o formatScore(ObjGet(o, best))

ImprovementLine(o, worst) ==
    Bullet \o " *Area for Improvement:* " \o getCategoryConfig(worst).title
    \o " at " \o formatScore(ObjGet(o, worst))

\* The places of the blocks bs that hold the bullets of an insights section: the section
\* after the '*Key Insights:*' heading.
InsightPlaces(bs) ==
    {i \in 2..Len(bs) : bs[i - 1] = SectionBlock(<<"*Key Insights:*">>)
                        /\ bs[i].type = "section"}

\* C14: whenever averageScores is not empty the rendered blocks hold the insights
\* section, whose first bullet names the first category with the maximal average and
\* whose second bullet names the first category with the minimal average.
C14_InsightsForEveryAverage ==
    (pc = "rendered" /\ Len(formatted.summary.averageScores) > 0) =>
        LET o == formatted.summary.averageScores
            best == FirstKeyWith(o, MaxOf(ObjValues(o)))
            worst == FirstKeyWith(o, MinOf(ObjValues(o)))
        IN \E i \in InsightPlaces(blocks) :
              /\ Len(blocks[i].text) >= 2
              /\ blocks[i].text[1] = StrongestLine(o, best)
              /\ blocks[i].text[2] = ImprovementLine(o, worst)

\* The averages are not all 0 and not all 1.
MixedAverages(o) ==
    /\ \E i \in 1..Len(o) : o[i].v # 0
    /\ \E i \in 1..Len(o) : o[i].v # 200

\* The part of C14 the renderer keeps: the insights of averages that are neither all 0
\* nor all 1.
InsightsForMixedAverages ==
    (pc = "rendered" /\ Len(formatted.summary.averageScores) > 0
        /\ MixedAverages(formatted.summary.averageScores))
    => LET o == formatted.summary.averageScores
           best == FirstKeyWith(o, MaxOf(ObjValues(o)))
           worst == FirstKeyWith(o, MinOf(ObjValues(o)))
       IN \E i \in InsightPlaces(blocks) :
             /\ Len(blocks[i].text) >= 2
             /\ blocks[i].text[1] = StrongestLine(o, best)
             /\ blocks[i].text[2] = ImprovementLine(o, worst)

\* scoresByDevice[d], the empty object when the summary has no such device.
SummaryOfDevice(fr, d) ==
    IF ObjHas(fr.summary.scoresByDevice, d) THEN ObjGet(fr.summary.scoresByDevice, d)
    ELSE <<>>

\* The categories that have an average on both devices.
SharedCategories(fr) ==
    {c \in Range(ObjKeys(SummaryOfDevice(fr, "mobile"))) :
        ObjHas(SummaryOfDevice(fr, "desktop"), c)}

\* |scoresByDevice.mobile[c] - scoresByDevice.desktop[c]| in units, computed exactly.
ExactGap(fr, c) ==
    LET m == ObjGet(SummaryOfDevice(fr, "mobile"), c)
        d == ObjGet(SummaryOfDevice(fr, "desktop"), c)
    IN IF m >= d THEN m - d ELSE d - m

\* The bullet of the device gap of category c.
GapLine(fr, c) ==
    Bullet \o " *Device Gap:* " \o getCategoryConfig(c).title \o " is "
    \o ToString(ExactGap(fr, c) \div 2) \o "% better on "
    \o (IF ObjGet(SummaryOfDevice(fr, "mobile"), c)
           > ObjGet(SummaryOfDevice(fr, "desktop"), c)
        THEN "Mobile" ELSE "Desktop")

\* The threshold of the device gap, 0.10, in units.
GapThreshold == 20

\* C15: with a summary for both devices, the insights hold a third bullet exactly when
\* the largest exact difference of the two devices' averages, over the categories that
\* have an average on both, is above 0.10; the bullet names a category of that largest
\* difference and the device whose average is higher.
C15_DeviceGapBullet ==
    (/\ pc = "rendered"
     /\ ObjHas(formatted.summary.scoresByDevice, "mobile")
     /\ ObjHas(formatted.summary.scoresByDevice, "desktop"))
    => \A i \in InsightPlaces(blocks) :
          LET shared == SharedCategories(formatted)
              largest == {c \in shared :
                             /\ ExactGap(formatted, c) > GapThreshold
                             /\ \A x \in shared :
                                    ExactGap(formatted, x) <= ExactGap(formatted, c)}
          IN IF largest = {} THEN Len(blocks[i].text) = 2
             ELSE /\ Len(blocks[i].text) = 3
                  /\ \E c \in largest : blocks[i].text[3] = GapLine(formatted, c)

\* The bullet of a category that only the mobile results hold.
C15_MobileOnlyBullet ==
    /\ pc = "rendered"
    /\ SharedCategories(formatted) = {}
    /\ \E i \in InsightPlaces(blocks) : Len(blocks[i].text) = 3

\* The bullet of a gap of exactly 0.10.
C15_ExactTenthBullet ==
    /\ pc = "rendered"
    /\ SharedCategories(formatted) = {"performance"}
    /\ ExactGap(formatted, "performance") = GapThreshold
    /\ \E i \in InsightPlaces(blocks) : Len(blocks[i].text) = 3

\* The category ids of the model in the order of the columns: the preferred ids, then
\* the other ids alphabetically.
PreferredThenAlphabetical ==
    <<"performance", "seo", "accessibility", "best-practices", "custom", "pwa">>

RECURSIVE InOrder(_, _)
\* The ids of the set present, in the order of order.
InOrder(order, present) ==
    IF order = <<>> THEN <<>>
    ELSE (IF Head(order) \in present THEN <<Head(order)>> ELSE <<>>)
         \o InOrder(Tail(order), present)

\* C16: the column header of the rendered table lists the categories of the report with
\* the preferred ids first, in their order, and the other ids after them alphabetically.
C16_ColumnOrder ==
    pc = "rendered" =>
        LET c == Collected(formatted)
        IN blocks[5] =
              SectionBlock(generateCategoryHeaders(
                  InOrder(PreferredThenAlphabetical, Range(c.sortedCategories)),
                  c.hasMobileTests, c.hasDesktopTests))

\* A report in which pwa and custom, in this order, take the columns before performance.
C16_UnknownFirst ==
    /\ pc = "rendered"
    /\ Collected(formatted).sortedCategories = <<"pwa", "custom", "performance">>

\* The results hold a result of the device d for the URL u.
HasResultFor(u, d) ==
    \E i \in 1..Len(results) : results[i].url = u /\ results[i].deviceType = d

\* C17: the cells of the row of a URL are formatted by the devices the URL has results
\* for: "mobile%/desktop%" with both, the score of the one device with one.
C17_CellFormatPerUrl ==
    pc = "rendered" =>
        LET c == Collected(formatted)
        IN \A i \in 1..Len(c.urlResults) :
              \A b \in 1..Len(blocks) :
                 (/\ blocks[b].type = "section"
                  /\ Len(blocks[b].text) = 2
                  /\ blocks[b].text[2] = c.urlResults[i].k \o Fence)
                 => blocks[b].text[1] =
                       Fence \o "|"
                       \o RowCells(c.sortedCategories, c.urlResults[i].v.mobileScores,
                                   c.urlResults[i].v.desktopScores,
                                   HasResultFor(c.urlResults[i].k, "mobile"),
                                   HasResultFor(c.urlResults[i].k, "desktop"))
                       \o DeviceColumn(SummaryText(SummaryColumn(c.urlResults[i].v, c)))

\* A report of one URL tested on mobile only and another tested on desktop only.
C17_MixedDevices ==
    /\ pc = "rendered"
    /\ Len(results) = 2
    /\ results[1].url = UrlA /\ results[1].deviceType = "mobile"
    /\ results[2].url = UrlB /\ results[2].deviceType = "desktop"

-----------------------------------------------------------------------------
(* index.ts: run(), and the delivery of sendSlackReport                    *)

EmojiCross == "X"        \* U+274C

\* A call of core.setFailed or core.warning.
SetFailed(message) == [call |-> "setFailed", message |-> message]
Warning(message) == [call |-> "warning", message |-> message]

\* An input of the action that is parsed as a number is the sequence of its characters.
Digits == <<"0", "1", "2", "3", "4", "5", "6", "7", "8", "9">>

IsDigit(c) == \E d \in 1..Len(Digits) : Digits[d] = c

DigitValue(c) == (CHOOSE d \in 1..Len(Digits) : Digits[d] = c) - 1

RECURSIVE JoinChars(_)
\* The string of the characters.
JoinChars(chars) == IF chars = <<>> THEN "" ELSE Head(chars) \o JoinChars(Tail(chars))

RECURSIVE LeadingDigits(_, _)
\* The number of the digits the characters start with, after the digits of acc.
LeadingDigits(acc, chars) ==
    IF chars = <<>> \/ ~IsDigit(Head(chars)) THEN acc
    ELSE LeadingDigits(10 * acc + DigitValue(Head(chars)), Tail(chars))

\* parseInt(string), for a string without leading white space and without the
\* prefix 0x: an optional sign and the digits before the first other character, NaN
\* when there is no digit.
ParseInt(chars) ==
    LET negative == chars # <<>> /\ Head(chars) = "-"
        signed == chars # <<>> /\ Head(chars) \in {"-", "+"}
        rest == IF signed THEN Tail(chars) ELSE chars
    IN IF rest = <<>> \/ ~IsDigit(Head(rest)) THEN [nan |-> TRUE, value |-> 0]
       ELSE [nan |-> FALSE,
             value |-> IF negative THEN 0 - LeadingDigits(0, rest)
                       ELSE LeadingDigits(0, rest)]

\* core.getInput(name) || fallback
InputOr(chars, fallback) == IF chars = <<>> THEN fallback ELSE chars

\* parseInputArray(input): the items between the commas of the input, trimmed, without
\* the empty ones.  The input is the sequence of its trimmed items.
parseInputArray(items) == SelectSeq(items, LAMBDA item : item # "")

\* The strings new URL(url) parses.
ParsableUrls == {"https://a.example", "https://b.example"}

\* The first element of the sequence s that is not in the set allowed.
FirstOutside(s, allowed) ==
    s[CHOOSE i \in 1..Len(s) : s[i] \notin allowed /\ \A j \in 1..(i - 1) : s[j] \in allowed]

\* parseInt(core.getInput('fail_on_score_below') || '0'), the threshold in percent
FailOnScoreBelowPercent(in) == ParseInt(InputOr(in.fail_on_score_below, <<"0">>)).value

\* validateInputs() with the check of the Slack destination before the checks of the
\* numbers
validateInputsSlackFirst(in) ==
    LET urlList == parseInputArray(in.urls)
        deviceTypeList == parseInputArray(in.device_types)
        failOnScoreBelowInput == InputOr(in.fail_on_score_below, <<"0">>)
        failOnScoreBelow == ParseInt(failOnScoreBelowInput)
        timeoutInput == InputOr(in.timeout, <<"6", "0">>)
        timeout == ParseInt(timeoutInput)
    IN IF Len(urlList) = 0 THEN Throw("At least one URL must be provided")
       ELSE IF \E i \in 1..Len(urlList) : urlList[i] \notin ParsableUrls
       THEN Throw("Invalid URL: " \o FirstOutside(urlList, ParsableUrls))
       ELSE IF \E i \in 1..Len(deviceTypeList) :
                   deviceTypeList[i] \notin {"mobile", "desktop"}
       THEN Throw("Invalid device type: "
                  \o FirstOutside(deviceTypeList, {"mobile", "desktop"})
                  \o ". Must be 'mobile' or 'desktop'")
       ELSE IF in.slack_webhook_url = "" /\ in.slack_token = ""
       THEN Throw("Either slack_webhook_url or slack_token must be provided")
       ELSE IF failOnScoreBelow.nan \/ failOnScoreBelow.value < 0
               \/ failOnScoreBelow.value > 100
       THEN Throw("Invalid fail_on_score_below value: " \o JoinChars(failOnScoreBelowInput)
                  \o ". Must be a number between 0 and 100")
       ELSE IF timeout.nan \/ timeout.value <= 0
       THEN Throw("Invalid timeout value: " \o JoinChars(timeoutInput)
                  \o ". Must be a positive number")
       ELSE Return("Input validation successful")

\* validateInputs(): the error of the first check that fails; the value returned stands
\* for the core.info('Input validation successful') before the return.
validateInputs(in) ==
    LET urlList == parseInputArray(in.urls)
        deviceTypeList == parseInputArray(in.device_types)
        failOnScoreBelowInput == InputOr(in.fail_on_score_below, <<"0">>)
        failOnScoreBelow == ParseInt(failOnScoreBelowInput)
        timeoutInput == InputOr(in.timeout, <<"6", "0">>)
        timeout == ParseInt(timeoutInput)
    IN IF Len(urlList) = 0 THEN Throw("At least one URL must be provided")
       ELSE IF \E i \in 1..Len(urlList) : urlList[i] \notin ParsableUrls
       THEN Throw("Invalid URL: " \o FirstOutside(urlList, ParsableUrls))
       ELSE IF \E i \in 1..Len(deviceTypeList) :
                   deviceTypeList[i] \notin {"mobile", "desktop"}
       THEN Throw("Invalid device type: "
                  \o FirstOutside(deviceTypeList, {"mobile", "desktop"})
                  \o ". Must be 'mobile' or 'desktop'")
       ELSE IF failOnScoreBelow.nan \/ failOnScoreBelow.value < 0
               \/ failOnScoreBelow.value > 100
       THEN Throw("Invalid fail_on_score_below value: " \o JoinChars(failOnScoreBelowInput)
                  \o ". Must be a number between 0 and 100")
       ELSE IF timeout.nan \/ timeout.value <= 0
       THEN Throw("Invalid timeout value: " \o JoinChars(timeoutInput)
                  \o ". Must be a positive number")
       ELSE IF in.slack_webhook_url = "" /\ in.slack_token = ""
       THEN Throw("Either slack_webhook_url or slack_token must be provided")
       ELSE Return("Input validation successful")

RECURSIVE AllScores(_)
\* lighthouseResults.flatMap(result => result.categories.map(category => category.score))
AllScores(rs) ==
    IF rs = <<>> THEN <<>>
    ELSE [i \in 1..Len(Head(rs).categories) |-> Head(rs).categories[i].score]
         \o AllScores(Tail(rs))

\* Math.min(...allScores): Infinity for no score at all
MathMin(allScores) ==
    IF allScores = <<>> THEN [infinite |-> TRUE, value |-> 0]
    ELSE [infinite |-> FALSE, value |-> MinOf(allScores)]

\* lowestScore <= failOnScoreBelow, failOnScoreBelow being parseInt(input) / 100
ScoreAtOrBelow(lowestScore, threshold) ==
    /\ ~lowestScore.infinite
    /\ ~DoubleLess(DoubleLiteral(threshold, 100), DoubleLiteral(lowestScore.value, 200))

\* lowestScore < failOnScoreBelow, failOnScoreBelow being parseInt(input) / 100
ScoreBelow(lowestScore, threshold) ==
    /\ ~lowestScore.infinite
    /\ DoubleLess(DoubleLiteral(lowestScore.value, 200), DoubleLiteral(threshold, 100))

\* `${Math.round(x * 100)}%` for x = num / den
RoundedPercent(num, den) ==
    ToString(DoubleMathRound(DoubleTimes(DoubleLiteral(num, den), 100))) \o "%"

\* The calls of the threshold check at the end of run().
ThresholdCheck(rs, threshold) ==
    LET lowestScore == MathMin(AllScores(rs))
    IN IF ScoreBelow(lowestScore, threshold)
       THEN <<SetFailed(EmojiCross \o " One or more scores ("
                        \o RoundedPercent(lowestScore.value, 200)
                        \o ") are below the threshold of "
                        \o RoundedPercent(threshold, 100))>>
       ELSE <<>>

\* The catch of the delivery, as a failure of the action
SendFailureFatal(outcome) ==
    IF outcome.threw
    THEN <<SetFailed(EmojiWarning \o " Failed to send results to Slack: " \o outcome.error)>>
    ELSE <<>>

\* try { await sendSlackReport(...) } catch (error) { core.warning(...) }
SendFailure(outcome) ==
    IF outcome.threw
    THEN <<Warning(EmojiWarning \o " Failed to send results to Slack: " \o outcome.error)>>
    ELSE <<>>

\* What the report directory holds after the tests, or "throws" for a failing file system.
ReportStates == {"files", "empty", "missing", "throws"}

ReportDir == "/github/workspace/lighthouse-results"

\* The warnings of the report handling.
ReportHandling(state) ==
    CASE state = "files" -> <<>>
      [] state = "empty" -> <<Warning("No report files were generated")>>
      [] state = "missing" -> <<Warning("Report directory does not exist: " \o ReportDir)>>
      [] OTHER -> <<Warning(EmojiWarning \o " Issue with report handling: EACCES")>>

\* retryConfig.retries of the WebClient
API_RETRIES == 2

\* slack_timeout_ms, at its default
SLACK_TIMEOUT_MS == 10000

WebhookOutcomes == {"delivered", "rejected", "timeout"}
ApiOutcomes == {"delivered", "fatal", "retryable"}

\* The error of a request to the webhook that did not deliver.
WebhookError(outcome) ==
    IF outcome = "timeout"
    THEN "Slack webhook request timed out after " \o ToString(SLACK_TIMEOUT_MS) \o "ms"
    ELSE "An HTTP protocol error occurred: statusCode = 404"

\* The error of a request to the API that did not deliver.
ApiError(outcome) ==
    IF outcome = "fatal" THEN "An API error occurred: channel_not_found"
    ELSE "A request error occurred: ETIMEDOUT"

-----------------------------------------------------------------------------
(* SpecRun: run() from the validation of its inputs to its end, with the    *)
(* outcome of runLighthouseTests drawn from lists of at most MaxRunResults  *)
(* results.  SpecSend: sendSlackReport called with every configuration.     *)

MaxRunResults == 2

\* fail_on_score_below: not set, 80 and 101
Thresholds == {<<>>, <<"8", "0">>, <<"1", "0", "1">>}

RunInputs ==
    [urls : {<<UrlA, UrlB>>},
     device_types : {<<"mobile", "desktop">>},
     timeout : {<<>>},
     fail_on_score_below : Thresholds,
     slack_webhook_url : {"", "https://hooks.slack.com/services/T0/B0/x"},
     slack_token : {"", "xoxb-0"}]

RunCategoryLists == {<<Perf(160)>>, <<Perf(158), Seo(180)>>, <<Perf(0)>>}

RunResults ==
    {[url |-> u, deviceType |-> d, categories |-> c, reportUrl |-> ""] :
        u \in {UrlA, UrlB}, d \in {"mobile", "desktop"}, c \in RunCategoryLists}

RunResultLists ==
    UNION {{rs \in [1..n -> RunResults] :
                \A i, j \in 1..n :
                    (rs[i].url = rs[j].url /\ rs[i].deviceType = rs[j].deviceType) => i = j} :
           n \in 1..MaxRunResults}

InitRun ==
    /\ pc = "validate"
    /\ inputs \in RunInputs
    /\ log = <<>> /\ attempts = <<>> /\ sent = Unused
    /\ audit = Unused
    /\ title \in Titles
    /\ env \in Envs
    /\ results = Unused /\ formatted = Unused /\ blocks = Unused
    /\ runs = Unused /\ averaged = Unused /\ errors = Unused
    /\ urls = Unused /\ deviceTypes = Unused /\ runsPerUrl = Unused
    /\ warmupRuns = Unused /\ batchStart = Unused /\ task = Unused

\* validateInputs() throws, core.setFailed is called and run() goes on
ValidateGoesOn ==
    /\ pc = "validate"
    /\ LET v == validateInputs(inputs)
       IN log' = IF v.threw
                 THEN Append(log, SetFailed(EmojiCross \o " Input validation failed: "
                                            \o v.error))
                 ELSE log
    /\ pc' = "tests"
    /\ UNCHANGED <<runs, averaged, results, errors, formatted, title, env, blocks,
                   urls, deviceTypes, runsPerUrl, warmupRuns, batchStart, task,
                   audit, inputs, attempts, sent>>

\* try { validateInputs() } catch (error) { core.setFailed(...); return }
Validate ==
    /\ pc = "validate"
    /\ LET v == validateInputs(inputs)
       IN IF v.threw
          THEN /\ log' = Append(log, SetFailed(EmojiCross \o " Input validation failed: "
                                               \o v.error))
               /\ pc' = "returned"
          ELSE /\ log' = log
               /\ pc' = "tests"
    /\ UNCHANGED <<runs, averaged, results, errors, formatted, title, env, blocks,
                   urls, deviceTypes, runsPerUrl, warmupRuns, batchStart, task,
                   audit, inputs, attempts, sent>>

\* lighthouseResults = await runLighthouseTests(...), which returns a list that is
\* not empty
TestsComplete ==
    /\ pc = "tests"
    /\ results' \in RunResultLists
    /\ pc' = "results"
    /\ UNCHANGED <<runs, averaged, errors, formatted, title, env, blocks,
                   urls, deviceTypes, runsPerUrl, warmupRuns, batchStart, task, runVars>>

\* runLighthouseTests throws: catch (error) { core.setFailed(...); return }
TestsFail ==
    /\ pc = "tests"
    /\ log' = Append(log, SetFailed(EmojiCross \o " Error running lighthouse tests: "
                                    \o "No Lighthouse tests were completed successfully"))
    /\ pc' = "returned"
    /\ UNCHANGED <<runs, averaged, results, errors, formatted, title, env, blocks,
                   urls, deviceTypes, runsPerUrl, warmupRuns, batchStart, task,
                   audit, inputs, attempts, sent>>

\* The audits yield no result: if (!lighthouseResults || lighthouseResults.length
\* === 0) throw new Error('No Lighthouse results were generated'), caught as above
TestsEmpty ==
    /\ pc = "tests"
    /\ results' = <<>>
    /\ log' = Append(log, SetFailed(EmojiCross \o " Error running lighthouse tests: "
                                    \o "No Lighthouse results were generated"))
    /\ pc' = "returned"
    /\ UNCHANGED <<runs, averaged, errors, formatted, title, env, blocks,
                   urls, deviceTypes, runsPerUrl, warmupRuns, batchStart, task,
                   audit, inputs, attempts, sent>>

\* formatLighthouseResults throws: catch (error) { core.setFailed(...); return }
FormatFails ==
    /\ pc = "results"
    /\ log' = Append(log, SetFailed(EmojiCross \o " Error formatting results: "
                                    \o "TypeError"))
    /\ pc' = "returned"
    /\ UNCHANGED <<runs, averaged, results, errors, formatted, title, env, blocks,
                   urls, deviceTypes, runsPerUrl, warmupRuns, batchStart, task,
                   audit, inputs, attempts, sent>>

\* sendViaWebhook: one request, raced against the timer
WebhookAttempt ==
    /\ pc = "rendered"
    /\ inputs.slack_webhook_url # ""
    /\ \E outcome \in WebhookOutcomes :
          /\ attempts' = Append(attempts, [to |-> "webhook", outcome |-> outcome])
          /\ sent' = IF outcome = "delivered" THEN Return("sent")
                     ELSE Throw(WebhookError(outcome))
    /\ pc' = "sent"
    /\ UNCHANGED <<runs, averaged, results, errors, formatted, title, env, blocks,
                   urls, deviceTypes, runsPerUrl, warmupRuns, batchStart, task,
                   audit, inputs, log>>

\* sendViaApi: one request of client.chat.postMessage, which the client repeats after a
\* failure it takes for transient until retryConfig.retries repetitions were made
ApiAttempt ==
    /\ pc = "rendered"
    /\ inputs.slack_webhook_url = "" /\ inputs.slack_token # ""
    /\ \E outcome \in ApiOutcomes :
          /\ attempts' = Append(attempts, [to |-> "api", outcome |-> outcome])
          /\ IF outcome = "retryable" /\ Len(attempts) < API_RETRIES
             THEN /\ sent' = sent
                  /\ pc' = "rendered"
             ELSE /\ sent' = IF outcome = "delivered" THEN Return("sent")
                             ELSE Throw(ApiError(outcome))
                  /\ pc' = "sent"
    /\ UNCHANGED <<runs, averaged, results, errors, formatted, title, env, blocks,
                   urls, deviceTypes, runsPerUrl, warmupRuns, batchStart, task,
                   audit, inputs, log>>

\* sendSlackReport with neither slack_webhook_url nor slack_token
NoDestination ==
    /\ pc = "rendered"
    /\ inputs.slack_webhook_url = "" /\ inputs.slack_token = ""
    /\ sent' = Throw("Either slack_webhook_url or slack_token must be provided")
    /\ pc' = "sent"
    /\ UNCHANGED <<runs, averaged, results, errors, formatted, title, env, blocks,
                   urls, deviceTypes, runsPerUrl, warmupRuns, batchStart, task,
                   audit, inputs, log, attempts>>

\* run() after the await of sendSlackReport: the catch of the delivery, the report
\* handling and the threshold check
Finish ==
    /\ pc = "sent"
    /\ \E state \in ReportStates :
          log' = log \o SendFailure(sent) \o ReportHandling(state)
                     \o ThresholdCheck(results, FailOnScoreBelowPercent(inputs))
    /\ pc' = "done"
    /\ UNCHANGED <<runs, averaged, results, errors, formatted, title, env, blocks,
                   urls, deviceTypes, runsPerUrl, warmupRuns, batchStart, task,
                   audit, inputs, attempts, sent>>

NextRun ==
    \/ Validate
    \/ TestsComplete
    \/ TestsFail
    \/ TestsEmpty
    \/ Format
    \/ FormatFails
    \/ Render
    \/ WebhookAttempt
    \/ ApiAttempt
    \/ Finish

SpecRun == InitRun /\ [][NextRun]_vars

\* sendSlackReport(formattedResults, slackTitle), called with any configuration
InitSend ==
    /\ pc = "formatted"
    /\ inputs \in {in \in RunInputs : in.fail_on_score_below = <<>>}
    /\ results \in RunResultLists
    /\ formatted = formatLighthouseResults(results)
    /\ log = <<>> /\ attempts = <<>> /\ sent = Unused
    /\ audit = Unused
    /\ title \in Titles
    /\ env \in Envs
    /\ blocks = Unused
    /\ runs = Unused /\ averaged = Unused /\ errors = Unused
    /\ urls = Unused /\ deviceTypes = Unused /\ runsPerUrl = Unused
    /\ warmupRuns = Unused /\ batchStart = Unused /\ task = Unused

NextSend ==
    \/ Render
    \/ WebhookAttempt
    \/ ApiAttempt
    \/ NoDestination

SpecSend == InitSend /\ [][NextSend]_vars

-----------------------------------------------------------------------------
(* run(): the threshold check and the failure of the delivery              *)

\* run() went through the threshold check: pc is "returned" after an early return.
ThresholdChecked == pc = "done"

\* The action was failed: core.setFailed was called.
ActionFailed == \E i \in 1..Len(log) : log[i].call = "setFailed"

\* A score of a category of a result is below t / 100, scores counting 1/200.
SomeScoreBelow(rs, t) ==
    \E i \in 1..Len(rs) : \E j \in 1..Len(rs[i].categories) :
        rs[i].categories[j].score < 2 * t

\* No score is below t / 100 and one score is t / 100.
LowestScoreIs(rs, t) ==
    /\ ~SomeScoreBelow(rs, t)
    /\ \E i \in 1..Len(rs) : \E j \in 1..Len(rs[i].categories) :
          rs[i].categories[j].score = 2 * t

\* C18: after the threshold check of run() the action is failed exactly when a score of
\* a category of a result is strictly below fail_on_score_below / 100; with the
\* threshold 0 it is not failed.
C18_FailsIffBelowThreshold ==
    ThresholdChecked =>
        /\ ActionFailed <=> SomeScoreBelow(results, FailOnScoreBelowPercent(inputs))
        /\ FailOnScoreBelowPercent(inputs) = 0 => ~ActionFailed

\* The lowest score equals the threshold of 80 and the action passed.
C18_Witness ==
    /\ ThresholdChecked
    /\ FailOnScoreBelowPercent(inputs) = 80
    /\ LowestScoreIs(results, 80)
    /\ ~ActionFailed

\* A score of 0.79 failed the action under the threshold of 80.
C18_WitnessBelow ==
    /\ ThresholdChecked
    /\ FailOnScoreBelowPercent(inputs) = 80
    /\ SomeScoreBelow(results, 80)
    /\ ActionFailed

\* The message of the failure by the threshold, for a lowest score of lowest / 200 and
\* the threshold t, both whole percentages.
ThresholdMessage(lowest, t) ==
    EmojiCross \o " One or more scores (" \o ToString(lowest \div 2)
    \o "%) are below the threshold of " \o ToString(t) \o "%"

\* C19: when sendSlackReport threw, run() has logged the error as a warning, no
\* core.setFailed call names the delivery, and the threshold check was made: the
\* action is failed exactly when a score is below the threshold, by the one call of
\* the threshold check.
C19_DeliveryFailureIsWarning ==
    (ThresholdChecked /\ sent.threw) =>
        /\ \E i \in 1..Len(log) :
              log[i] = Warning(EmojiWarning \o " Failed to send results to Slack: "
                               \o sent.error)
        /\ \A i \in 1..Len(log) :
              log[i].call = "setFailed" =>
                  /\ i = Len(log)
                  /\ SomeScoreBelow(results, FailOnScoreBelowPercent(inputs))
                  /\ log[i].message = ThresholdMessage(MinOf(AllScores(results)),
                                                       FailOnScoreBelowPercent(inputs))
        /\ SomeScoreBelow(results, FailOnScoreBelowPercent(inputs)) => ActionFailed

\* A delivery that timed out, with every score at or above the threshold: the action
\* passed.
C19_Witness ==
    /\ ThresholdChecked
    /\ sent.threw
    /\ attempts = <<[to |-> "webhook", outcome |-> "timeout"]>>
    /\ FailOnScoreBelowPercent(inputs) = 80
    /\ ~SomeScoreBelow(results, 80)
    /\ ~ActionFailed

\* A delivery that failed, with a score below the threshold: the action failed.
C19_WitnessBelow ==
    /\ ThresholdChecked
    /\ sent.threw
    /\ SomeScoreBelow(results, FailOnScoreBelowPercent(inputs))
    /\ ActionFailed

-----------------------------------------------------------------------------
(* sendSlackReport: the requests of one call                               *)

\* C20: a finished call of sendSlackReport has sent exactly one request, to the webhook
\* when slack_webhook_url is set and else to the API when slack_token is set, and has
\* thrown when the request failed or timed out; with neither input it has sent no
\* request and has thrown.
C20_OneAttempt ==
    pc = "sent" =>
        IF inputs.slack_webhook_url # ""
        THEN /\ Len(attempts) = 1
             /\ attempts[1].to = "webhook"
             /\ sent.threw <=> attempts[1].outcome # "delivered"
        ELSE IF inputs.slack_token # ""
        THEN /\ Len(attempts) = 1
             /\ attempts[1].to = "api"
             /\ sent.threw <=> attempts[1].outcome # "delivered"
        ELSE attempts = <<>> /\ sent.threw

\* A call that sent a second request to the API after a failed one.
C20_Retried ==
    /\ pc = "sent"
    /\ Len(attempts) > 1
    /\ attempts[1].outcome = "retryable"

\* The part of C20 that holds of the webhook and of a call without destination.
OneAttemptWithoutApi ==
    (pc = "sent" /\ ~(inputs.slack_webhook_url = "" /\ inputs.slack_token # "")) =>
        IF inputs.slack_webhook_url # ""
        THEN /\ Len(attempts) = 1
             /\ attempts[1].to = "webhook"
             /\ sent.threw <=> attempts[1].outcome # "delivered"
        ELSE attempts = <<>> /\ sent.threw

\* The requests of a call to the API: at most 1 + API_RETRIES, each but the last one
\* failed.
ApiAttemptsBounded ==
    (pc = "sent" /\ inputs.slack_webhook_url = "" /\ inputs.slack_token # "") =>
        /\ Len(attempts) \in 1..(1 + API_RETRIES)
        /\ \A i \in 1..Len(attempts) :
              attempts[i].to = "api" /\ (i < Len(attempts) => attempts[i].outcome = "retryable")

-----------------------------------------------------------------------------
(* SpecValidate: the validation of run() on every combination of lists of   *)
(* at most MaxItems urls and device types, four texts of each number and    *)
(* the four configurations of the Slack destination.                        *)

MaxItems == 2

\* The items of the input urls: an empty item, a URL, a string that is no URL.
UrlItems == {"", UrlA, "invalid-url"}

\* The items of the input device_types.
DeviceItems == {"mobile", "desktop", "tablet"}

\* The texts of fail_on_score_below: not set, 80%, 101, abc.
ThresholdTexts == {<<>>, <<"8", "0", "%">>, <<"1", "0", "1">>, <<"a", "b", "c">>}

\* The texts of timeout: not set, 30, -10, 0.
TimeoutTexts == {<<>>, <<"3", "0">>, <<"-", "1", "0">>, <<"0">>}

ValidateInputs ==
    [urls : UNION {[1..n -> UrlItems] : n \in 0..MaxItems},
     device_types : UNION {[1..n -> DeviceItems] : n \in 0..MaxItems},
     timeout : TimeoutTexts,
     fail_on_score_below : ThresholdTexts,
     slack_webhook_url : {"", "https://hooks.slack.com/services/T0/B0/x"},
     slack_token : {"", "xoxb-0"}]

InitValidate ==
    /\ pc = "validate"
    /\ inputs \in ValidateInputs
    /\ log = <<>> /\ attempts = <<>> /\ sent = Unused
    /\ audit = Unused
    /\ title = Unused /\ env = Unused
    /\ results = Unused /\ formatted = Unused /\ blocks = Unused
    /\ runs = Unused /\ averaged = Unused /\ errors = Unused
    /\ urls = Unused /\ deviceTypes = Unused /\ runsPerUrl = Unused
    /\ warmupRuns = Unused /\ batchStart = Unused /\ task = Unused

NextValidate == Validate

SpecValidate == InitValidate /\ [][NextValidate]_vars

\* The checks of the inputs in their order, each with the error of its failure: ok tells
\* whether the inputs pass the check.
InputChecks(in) ==
    LET given == SelectSeq(in.urls, LAMBDA u : u # "")
        devices == SelectSeq(in.device_types, LAMBDA x : x # "")
        badUrls == SelectSeq(given, LAMBDA u : u \notin ParsableUrls)
        badDevices == SelectSeq(devices, LAMBDA x : x \notin {"mobile", "desktop"})
        threshold == ParseInt(InputOr(in.fail_on_score_below, <<"0">>))
        timeout == ParseInt(InputOr(in.timeout, <<"6", "0">>))
    IN <<[ok |-> given # <<>>,
          error |-> "At least one URL must be provided"],
         [ok |-> badUrls = <<>>,
          error |-> "Invalid URL: " \o (IF badUrls = <<>> THEN "" ELSE badUrls[1])],
         [ok |-> badDevices = <<>>,
          error |-> "Invalid device type: "
                    \o (IF badDevices = <<>> THEN "" ELSE badDevices[1])
                    \o ". Must be 'mobile' or 'desktop'"],
         [ok |-> ~threshold.nan /\ threshold.value \in 0..100,
          error |-> "Invalid fail_on_score_below value: "
                    \o JoinChars(InputOr(in.fail_on_score_below, <<"0">>))
                    \o ". Must be a number between 0 and 100"],
         [ok |-> ~timeout.nan /\ timeout.value > 0,
          error |-> "Invalid timeout value: " \o JoinChars(InputOr(in.timeout, <<"6", "0">>))
                    \o ". Must be a positive number"],
         [ok |-> in.slack_webhook_url # "" \/ in.slack_token # "",
          error |-> "Either slack_webhook_url or slack_token must be provided"]>>

\* C21: the validation fails with the error of the first check, in the order urls given,
\* urls parse, device types, fail_on_score_below, timeout, Slack destination, that the
\* inputs do not pass, and succeeds exactly when the inputs pass every check.
C21_FirstViolatedCheck ==
    pc # "validate" =>
        LET checks == InputChecks(inputs)
            failing == {i \in 1..Len(checks) : ~checks[i].ok}
        IN IF failing = {}
           THEN /\ pc = "tests"
                /\ log = <<>>
                /\ validateInputs(inputs) = Return("Input validation successful")
           ELSE /\ pc = "returned"
                /\ \E i \in failing :
                      /\ \A j \in failing : i <= j
                      /\ log = <<SetFailed(EmojiCross \o " Input validation failed: "
                                           \o checks[i].error)>>

\* Inputs that fail the check of fail_on_score_below, of the timeout and of the Slack
\* destination: the error is that of fail_on_score_below.
C21_Witness ==
    /\ pc = "returned"
    /\ inputs.fail_on_score_below = <<"1", "0", "1">>
    /\ inputs.timeout = <<"-", "1", "0">>
    /\ inputs.slack_webhook_url = "" /\ inputs.slack_token = ""
    /\ log = <<SetFailed(EmojiCross \o " Input validation failed: "
                         \o "Invalid fail_on_score_below value: 101. "
                         \o "Must be a number between 0 and 100")>>

\* Inputs that pass every check.
C21_WitnessValid ==
    /\ pc = "tests"
    /\ inputs.urls = <<UrlA>>
    /\ inputs.fail_on_score_below = <<"8", "0", "%">>

-----------------------------------------------------------------------------
(* createSlackBlocks: results without categories                           *)

\* No result holds a category.
NoCategories(rs) == \A i \in 1..Len(rs) : rs[i].categories = <<>>

\* The URLs of the results.
UrlsOf(rs) == {rs[i].url : i \in 1..Len(rs)}

\* C22: when no result holds a category the rendered blocks are the four blocks before
\* the column header, the column header with 'No categories tested', one row with
\* 'No data available' for every URL, and the footer: no insights, no other block.
C22_PlaceholdersWithoutCategories ==
    (pc = "rendered" /\ NoCategories(results)) =>
        /\ Len(blocks) = 5 + Cardinality(UrlsOf(results)) + 1
        /\ blocks[5] = SectionBlock(<<Fence \o "| No categories tested |" \o Fence>>)
        /\ \A i \in 6..(Len(blocks) - 1) :
              blocks[i] = SectionBlock(<<Fence \o "| No data available |" \o Fence>>)
        /\ blocks[Len(blocks)] = FooterBlock(env)
        /\ \A i \in 4..Len(blocks) : blocks[i] # DividerBlock
        /\ InsightPlaces(blocks) = {}

\* Three URLs without categories, rendered.
C22_Witness ==
    /\ pc = "rendered"
    /\ NoCategories(results)
    /\ Cardinality(UrlsOf(results)) = 3
    /\ Len(blocks) = 9

-----------------------------------------------------------------------------
(* createSlackBlocks: the time of the rendering                            *)

\* The times of a second rendering.
LaterClocks == {"2026-01-01T00:00:00.001Z", "2027-12-31T23:59:59.999Z"}

-----------------------------------------------------------------------------
(* runLighthouseTests: one result per pair                                  *)

\* No two entries of rs are of the same url and device type.
OnePerPair(rs) ==
    \A i, j \in 1..Len(rs) :
        (rs[i].url = rs[j].url /\ rs[i].deviceType = rs[j].deviceType) => i = j

\* The elements of the sequence s are distinct.
Distinct(s) == \A i, j \in 1..Len(s) : s[i] = s[j] => i = j

\* The (url, deviceType) pairs of the input.
InputPairs == {<<urls[u], deviceTypes[d]>> : u \in 1..Len(urls), d \in 1..Len(deviceTypes)}

\* The results hold one entry per pair at most, each of a pair of the input, and the
\* summary counts them.
CollapsedResults ==
    /\ OnePerPair(results)
    /\ \A i \in 1..Len(results) : <<results[i].url, results[i].deviceType>> \in InputPairs
    /\ pc \in {"formatted", "rendered"} =>
          /\ formatted.results = results
          /\ formatted.summary.totalTests = Len(results)
          /\ formatted.summary.totalTests <= Cardinality(InputPairs)

\* C24: for distinct URLs the results hold at most one entry per (url, deviceType) pair
\* at every moment of runLighthouseTests and after it, and totalTests is their number.
C24_OneResultPerPair == Distinct(urls) => CollapsedResults

\* C24, for distinct URLs and distinct device types.
C24_OneResultPerDistinctPair ==
    (Distinct(urls) /\ Distinct(deviceTypes)) => CollapsedResults

\* Two URLs on two device types with one warmup and two measured runs each: four
\* results, each the median of two runs.
C24_Witness ==
    /\ pc = "formatted"
    /\ Distinct(deviceTypes)
    /\ Len(urls) = 2 /\ Len(deviceTypes) = 2
    /\ runsPerUrl = 2 /\ warmupRuns = 1
    /\ formatted.summary.totalTests = 4
    /\ \A i \in 1..Len(results) :
          \E u \in 1..Len(urls), d \in 1..Len(deviceTypes) :
              results[i] = averageLighthouseResults(<<runLighthouseForUrl(u, d, 1),
                                                      runLighthouseForUrl(u, d, 2)>>).value

\* A device type given twice: two results of the same pair.
C24_TwiceTheSamePair ==
    /\ pc = "formatted"
    /\ ~OnePerPair(results)

-----------------------------------------------------------------------------
(* runLighthouseTests: every pair is counted once                           *)

\* The call has finished: it returned its results or threw.
TestsFinished == pc \in {"results", "threw", "formatted", "rendered"}

\* The number of entries of s of the url and device type of the pair <<u, d>>.
EntriesOf(s, u, d) ==
    Cardinality({i \in 1..Len(s) : s[i].url = urls[u] /\ s[i].deviceType = deviceTypes[d]})

\* The number of times the url and device type of the pair <<u, d>> are listed.
TimesListed(u, d) ==
    Cardinality({q \in (1..Len(urls)) \X (1..Len(deviceTypes)) :
                    urls[q[1]] = urls[u] /\ deviceTypes[q[2]] = deviceTypes[d]})

\* After the call every listed pair is in results or in errors, once, and the call
\* threw exactly when there is no result.
AccountedOnce ==
    (runsPerUrl >= 1 /\ TestsFinished) =>
        /\ Len(results) + Len(errors) = Len(urls) * Len(deviceTypes)
        /\ \A u \in 1..Len(urls), d \in 1..Len(deviceTypes) :
              EntriesOf(results, u, d) + EntriesOf(errors, u, d) = TimesListed(u, d)
        /\ (pc = "threw") <=> (results = <<>>)

\* What pair p does after its measured run number n, rr being the results of its
\* successful runs up to this one: the next run, or one result aggregated over rr, or
\* one error when rr is empty.
AfterMeasuredRun(p, n, rr) ==
    IF n < runsPerUrl
    THEN /\ task'[p] = [phase |-> "run", n |-> n + 1, runResults |-> rr]
         /\ results' = results /\ errors' = errors
    ELSE /\ task'[p] = Settled
         /\ IF rr = <<>>
            THEN /\ results' = results
                 /\ errors' = Append(errors, AuditError(p[1], p[2], n))
            ELSE /\ results' = Append(results, averageLighthouseResults(rr).value)
                 /\ errors' = errors

\* A step of a pair in its measured runs: the run succeeded and its result joins those
\* of the pair, or it failed and they stay as they are; the other pairs stay as they
\* are and the call goes on.
MeasuredStep ==
    \A p \in DOMAIN task :
        (runsPerUrl >= 1 /\ task[p].phase = "run" /\ task'[p] # task[p]) =>
            /\ pc' = "batch"
            /\ \A q \in DOMAIN task \ {p} : task'[q] = task[q]
            /\ \/ AfterMeasuredRun(p, task[p].n,
                                   Append(task[p].runResults,
                                          runLighthouseForUrl(p[1], p[2], task[p].n)))
               \/ AfterMeasuredRun(p, task[p].n, task[p].runResults)

\* C25: for runsPerUrl >= 1 every pair ends in results, aggregated over its successful
\* measured runs, when one of its measured runs succeeded, and in errors otherwise, once;
\* results.length + errors.length is the number of pairs; a failing pair leaves the
\* others running; the call throws exactly when results is empty.
C25_EveryPairCountedOnce == []AccountedOnce /\ [][MeasuredStep]_vars

\* Two measured runs per pair: one pair failed both, another failed its first run only
\* and its result is that of its second run.
C25_Witness ==
    /\ pc = "results"
    /\ runsPerUrl = 2
    /\ Len(errors) >= 1
    /\ \E u \in 1..Len(urls), d \in 1..Len(deviceTypes) :
          /\ EntriesOf(errors, u, d) = 0
          /\ \E i \in 1..Len(results) :
                results[i] = averageLighthouseResults(<<runLighthouseForUrl(u, d, 2)>>).value

\* Every pair failed: the call threw with one error per pair.
C25_WitnessThrew ==
    /\ pc = "threw"
    /\ runsPerUrl = 2
    /\ Len(errors) = Len(urls) * Len(deviceTypes)
    /\ Len(errors) = MaxPairs

-----------------------------------------------------------------------------
(* runLighthouseTests: batches                                              *)

\* The pairs with an audit in flight: a pair awaits one runLighthouseForUrl call at a
\* time, a warmup or a measured run.
InFlight == {p \in DOMAIN task : task[p].phase \in {"warmup", "run"}}

\* The position of a pair in its sequence of audits: the warmups, then the measured
\* runs, then settled.
Progress(t) ==
    CASE t.phase = "warmup" -> t.n
      [] t.phase = "run" -> warmupRuns + t.n
      [] OTHER -> warmupRuns + runsPerUrl + 1

\* While the batches run: the pairs are those of at most BATCH_SIZE URLs, the pairs of
\* the batches before are in results or errors, those of the batches after in neither.
OneBatchAtATime ==
    pc = "batch" =>
        /\ batchStart % BATCH_SIZE = 0
        /\ DOMAIN task = TaskPairs(batchStart)
        /\ Cardinality({p[1] : p \in DOMAIN task}) <= BATCH_SIZE
        /\ Cardinality(InFlight) <= BATCH_SIZE * Len(deviceTypes)
        /\ \A u \in 1..Len(urls), d \in 1..Len(deviceTypes) :
              LET entries == EntriesOf(results, u, d) + EntriesOf(errors, u, d)
              IN /\ (u <= batchStart /\ runsPerUrl >= 1) => entries = TimesListed(u, d)
                 /\ u > batchStart + BATCH_SIZE => entries = 0

\* A batch starts when every pair of the batch before has settled, all its pairs at
\* once; a step of a pair is its next audit in the sequence, one at a time.
BatchStep ==
    /\ (batchStart' # batchStart \/ (pc = "start" /\ pc' = "batch")) =>
          /\ \A p \in DOMAIN task : task[p].phase = "settled"
          /\ pc' = "batch" =>
                /\ DOMAIN task' = TaskPairs(batchStart')
                /\ \A p \in DOMAIN task' : task'[p] = FirstStep
    /\ (pc = "batch" /\ batchStart' = batchStart) =>
          \A p \in DOMAIN task :
              task'[p] # task[p] => Progress(task'[p]) = Progress(task[p]) + 1

\* C27: the URLs run in batches of at most BATCH_SIZE; the pairs of a batch start
\* together; no pair of a later batch starts before every pair of the batch before has
\* settled; the audits of a pair run one after the other, warmups before measured runs;
\* at most BATCH_SIZE * |deviceTypes| audits are in flight.
C27_BatchesOfThree == []OneBatchAtATime /\ [][BatchStep]_vars

\* The second batch runs its one pair while the three pairs of the first batch are
\* settled, one of them failed.
C27_Witness ==
    /\ pc = "batch"
    /\ batchStart = BATCH_SIZE
    /\ Cardinality(InFlight) = 1
    /\ Len(results) + Len(errors) = BATCH_SIZE
    /\ Len(errors) >= 1

\* All the pairs of a batch of BATCH_SIZE URLs are in flight, some in a warmup and some
\* in a measured run.
C27_WitnessFull ==
    /\ pc = "batch"
    /\ Cardinality(InFlight) = BATCH_SIZE * Len(deviceTypes)
    /\ \E p, q \in InFlight : task[p].phase = "warmup" /\ task[q].phase = "run"

-----------------------------------------------------------------------------
(* runLighthouseTests: warmup runs                                          *)

\* The results of the measured runs of the pair <<u, d>> whose numbers are in S, in
\* the order of the runs.
MeasuredRuns(u, d, S) ==
    LET numbers == SelectSeq([k \in 1..runsPerUrl |-> k], LAMBDA k : k \in S)
    IN [j \in 1..Len(numbers) |-> runLighthouseForUrl(u, d, numbers[j])]

\* What the measured runs of the pairs can leave in results and in errors.
FromMeasuredRuns ==
    /\ \A i \in 1..Len(results) :
          \E u \in 1..Len(urls), d \in 1..Len(deviceTypes) :
              /\ results[i].url = urls[u] /\ results[i].deviceType = deviceTypes[d]
              /\ \E S \in SUBSET (1..runsPerUrl) :
                    /\ S # {}
                    /\ results[i] = averageLighthouseResults(MeasuredRuns(u, d, S)).value
    /\ \A i \in 1..Len(errors) :
          \E u \in 1..Len(urls), d \in 1..Len(deviceTypes) :
              errors[i] = AuditError(u, d, runsPerUrl)
    /\ \A p \in DOMAIN task :
          /\ task[p].phase = "warmup" => task[p].runResults = <<>>
          /\ task[p].phase = "run" =>
                \E S \in SUBSET (1..(task[p].n - 1)) :
                    task[p].runResults = MeasuredRuns(p[1], p[2], S)

\* A step of a pair in its warmups, however the warmup ended: results, errors and the
\* run results of the pair stay as they are, and the pair goes on to its next warmup
\* or to its first measured run.
WarmupStep ==
    \A p \in DOMAIN task :
        (task[p].phase = "warmup" /\ task'[p] # task[p]) =>
            /\ results' = results /\ errors' = errors /\ pc' = pc
            /\ task'[p] = IF task[p].n < warmupRuns
                          THEN [phase |-> "warmup", n |-> task[p].n + 1, runResults |-> <<>>]
                          ELSE IF runsPerUrl >= 1
                          THEN [phase |-> "run", n |-> 1, runResults |-> <<>>]
                          ELSE Settled

\* C29: a warmup adds nothing to results, to errors or to the run results of its pair,
\* whether it succeeded or failed, and is followed by the next warmup or the first
\* measured run; results, errors and the run results of a pair hold what the measured
\* runs produced and nothing else.
C29_WarmupsLeaveNoTrace == []FromMeasuredRuns /\ [][WarmupStep]_vars

\* After one warmup per pair a pair failed both of its measured runs and another one
\* has the result of its two measured runs.
C29_Witness ==
    /\ pc = "results"
    /\ warmupRuns = 1 /\ runsPerUrl = 2
    /\ Len(errors) >= 1
    /\ \E u \in 1..Len(urls), d \in 1..Len(deviceTypes) :
          \E i \in 1..Len(results) :
              results[i] = averageLighthouseResults(MeasuredRuns(u, d, {1, 2})).value

\* A pair is in its warmup while another pair, after its own, is in a measured run.
C29_WitnessDuring ==
    /\ pc = "batch"
    /\ \E p, q \in DOMAIN task :
          /\ task[p].phase = "warmup"
          /\ task[q].phase = "run" /\ task[q].n = 2 /\ task[q].runResults # <<>>

-----------------------------------------------------------------------------
(* run(): the order of its steps and its early returns                      *)

\* The successive positions of run(): validation, audits, summary, Slack, threshold
\* check, and the return after a failure of one of the first three.
RunOrder ==
    {<<"validate", "tests">>, <<"validate", "returned">>,
     <<"tests", "results">>, <<"tests", "returned">>,
     <<"results", "formatted">>, <<"results", "returned">>,
     <<"formatted", "rendered">>, <<"rendered", "sent">>, <<"sent", "done">>}

\* The core.setFailed calls of a failed validation, of failed or empty audits and of a
\* failed summary.
EarlyFailures ==
    LET v == validateInputs(inputs)
    IN (IF v.threw
        THEN {SetFailed(EmojiCross \o " Input validation failed: " \o v.error)}
        ELSE {})
       \cup {SetFailed(EmojiCross \o " Error running lighthouse tests: " \o m) :
                m \in {"No Lighthouse tests were completed successfully",
                       "No Lighthouse results were generated"}}
       \cup {SetFailed(EmojiCross \o " Error formatting results: " \o "TypeError")}

\* Nothing is sent before the blocks are rendered from the summary of the results of
\* the audits that followed a successful validation; after an early failure run() has
\* returned with the action failed by that one call, nothing sent and no further call.
StepsInOrder ==
    /\ validateInputs(inputs).threw => pc \in {"validate", "returned"}
    /\ pc \in {"validate", "tests", "results", "formatted", "rendered"} => log = <<>>
    /\ pc \in {"validate", "tests", "results", "formatted", "returned"} => attempts = <<>>
    /\ pc \in {"validate", "tests"} => (results = Unused /\ formatted = Unused)
    /\ pc \in {"validate", "tests", "results", "returned"} => formatted = Unused
    /\ pc \in {"validate", "tests", "results", "formatted", "returned"} => blocks = Unused
    /\ pc = "returned" => (Len(log) = 1 /\ log[1] \in EarlyFailures)
    /\ \A i \in 1..Len(log) : log[i] \in EarlyFailures => pc = "returned"
    /\ pc \in {"sent", "done"} =>
          /\ attempts # <<>>
          /\ blocks = createSlackBlocks(formatLighthouseResults(results), title, env)

\* C28: run() validates, runs the audits, builds the summary, sends to Slack and checks
\* the threshold, in this order; when the validation fails, the audits throw or yield
\* no result, or the summary throws, the action is failed and run() returns with
\* nothing sent to Slack and no threshold check.
C28_OrderAndEarlyReturns == []StepsInOrder /\ [][pc' # pc => <<pc, pc'>> \in RunOrder]_vars

\* The audits threw after a successful validation: run() returned with the action
\* failed and nothing sent.
C28_Witness ==
    /\ pc = "returned"
    /\ ~validateInputs(inputs).threw
    /\ log = <<SetFailed(EmojiCross \o " Error running lighthouse tests: "
                         \o "No Lighthouse tests were completed successfully")>>
    /\ attempts = <<>>

\* The validation failed.
C28_WitnessValidation ==
    /\ pc = "returned"
    /\ validateInputs(inputs).threw
    /\ ActionFailed

\* The summary failed.
C28_WitnessSummary ==
    /\ pc = "returned"
    /\ log = <<SetFailed(EmojiCross \o " Error formatting results: " \o "TypeError")>>
    /\ results \in RunResultLists

\* All five steps were made.
C28_WitnessDone ==
    /\ pc = "done"
    /\ attempts # <<>>
    /\ ActionFailed

-----------------------------------------------------------------------------
(* SpecAudit: one call of runLighthouseForUrl, a step per attempt of its    *)
(* retry loop.                                                              *)

MaxRetries == 2

\* The maxRetries of the calls of runLighthouseTests: warmup and measured runs.
WARMUP_RETRIES == 0
MEASURED_RETRIES == 2

AuditUrls == {UrlA, UrlB}

\* The output directory before the loop: present or created and writable, or
\* mkdirSync throws, or the write test throws.
OutputDirStates == {"ready", "cannot create", "not writable"}

\* What throws inside the try block of an attempt: the command, the search for the
\* JSON files, the reading and parsing of the newest one.
FailureKinds == {"exec", "no json", "parse"}

\* The result read from the report the command of attempt number attempt wrote.
ReportOf(url, deviceType, attempt) ==
    [url |-> url, deviceType |-> deviceType,
     categories |-> <<Perf(100 + 20 * attempt)>>, reportUrl |-> ""]

\* The error caught in attempt number attempt.
AttemptError(kind, attempt) ==
    [message |-> CASE kind = "exec" -> "Command failed"
                   [] kind = "no json" -> "No JSON output files found matching pattern"
                   [] OTHER -> "Failed to parse Lighthouse results",
     attempt |-> attempt]

\* new Error('Failed to run Lighthouse for URL: ...')
FailedToRun(a) ==
    [message |-> "Failed to run Lighthouse for URL: " \o a.url \o ", Device: "
                 \o a.deviceType,
     attempt |-> -1]

\* for (...; attempt <= maxRetries + 1; attempt++), after a failed attempt
RetryingOnceMore(a) == a.attempt <= a.maxRetries

\* for (...; attempt <= maxRetries; attempt++), after a failed attempt: another
\* attempt follows.
Retrying(a) == a.attempt < a.maxRetries

InitAudit ==
    /\ pc = "audit"
    /\ audit \in [url : AuditUrls, deviceType : {"mobile", "desktop"},
                  maxRetries : 0..MaxRetries, outputDir : OutputDirStates,
                  attempt : {0}, lastError : {<<>>}, tried : {<<>>},
                  outcome : {Unused}]
    /\ runs = Unused /\ averaged = Unused /\ results = Unused /\ errors = Unused
    /\ formatted = Unused /\ title = Unused /\ env = Unused /\ blocks = Unused
    /\ urls = Unused /\ deviceTypes = Unused /\ runsPerUrl = Unused
    /\ warmupRuns = Unused /\ batchStart = Unused /\ task = Unused
    /\ inputs = Unused /\ log = Unused /\ attempts = Unused /\ sent = Unused

auditOnly == <<runs, averaged, results, errors, formatted, title, env, blocks,
               urls, deviceTypes, runsPerUrl, warmupRuns, batchStart, task,
               inputs, log, attempts, sent>>

\* The code before the loop: the output directory is created and tested, which throws
\* or leads to the first attempt.
PrepareOutput ==
    /\ pc = "audit"
    /\ IF audit.outputDir = "ready"
       THEN /\ pc' = "attempt"
            /\ UNCHANGED audit
       ELSE /\ pc' = "threw"
            /\ audit' = [audit EXCEPT !.outcome =
                   Throw(IF audit.outputDir = "cannot create"
                         THEN [message |-> "Failed to create output directory",
                               attempt |-> -1]
                         ELSE [message |-> "Output directory is not writable",
                               attempt |-> -1])]
    /\ UNCHANGED auditOnly

\* The attempt succeeds: return {url, deviceType, categories, reportUrl}
AttemptSucceeds ==
    /\ pc = "attempt"
    /\ audit' = [audit EXCEPT
                    !.tried = Append(@, [kind |-> "ok", attempt |-> audit.attempt]),
                    !.outcome = Return(ReportOf(audit.url, audit.deviceType,
                                                audit.attempt))]
    /\ pc' = "returned"
    /\ UNCHANGED auditOnly

\* After a failed attempt that left a with its lastError: the next attempt, or the end
\* of the loop and throw lastError || new Error(...)
AfterFailedAttempt(a) ==
    IF Retrying(a)
    THEN /\ audit' = [a EXCEPT !.attempt = @ + 1]
         /\ pc' = "attempt"
    ELSE /\ audit' = [a EXCEPT !.attempt = @ + 1,
                               !.outcome = Throw(IF a.lastError # <<>>
                                                 THEN a.lastError[1]
                                                 ELSE FailedToRun(a))]
         /\ pc' = "threw"

\* The attempt throws inside the try block: catch (error) { lastError = error; ... }
AttemptThrows(kind) ==
    /\ pc = "attempt"
    /\ AfterFailedAttempt(
          [audit EXCEPT
              !.tried = Append(@, [kind |-> kind, attempt |-> audit.attempt]),
              !.lastError = <<AttemptError(kind, audit.attempt)>>])
    /\ UNCHANGED auditOnly

\* The command succeeds and the output directory is gone: a warning and continue, with
\* no error recorded.
OutputDirMissing ==
    /\ pc = "attempt"
    /\ AfterFailedAttempt(
          [audit EXCEPT
              !.tried = Append(@, [kind |-> "no directory", attempt |-> audit.attempt])])
    /\ UNCHANGED auditOnly

NextAudit ==
    \/ PrepareOutput
    \/ AttemptSucceeds
    \/ \E kind \in FailureKinds : AttemptThrows(kind)
    \/ OutputDirMissing

SpecAudit == InitAudit /\ [][NextAudit]_vars

\* The error recorded by the last of the attempts tried that recorded one, or the
\* error made up when none did.
LastRecordedError(a) ==
    LET recorded == SelectSeq(a.tried, LAMBDA t : t.kind \in FailureKinds)
    IN IF recorded = <<>> THEN FailedToRun(a)
       ELSE AttemptError(recorded[Len(recorded)].kind, recorded[Len(recorded)].attempt)

\* C26: a call makes at most maxRetries + 1 attempts, numbered from 0; a successful
\* attempt is the last one and the call returns the result of that attempt; a call
\* whose maxRetries + 1 attempts all failed has thrown the last error recorded; a call
\* only returns the result of a successful attempt.
C26_BoundedRetries ==
    pc \in {"attempt", "returned", "threw"} =>
        LET a == audit
            n == Len(a.tried)
        IN /\ n <= a.maxRetries + 1
           /\ \A i \in 1..n : a.tried[i].attempt = i - 1
           /\ \A i \in 1..n : a.tried[i].kind = "ok" => (i = n /\ pc = "returned")
           /\ pc = "attempt" => n <= a.maxRetries
           /\ pc = "returned" =>
                 /\ n >= 1 /\ a.tried[n].kind = "ok"
                 /\ a.outcome = Return(ReportOf(a.url, a.deviceType, n - 1))
           /\ (pc = "threw" /\ a.outputDir = "ready") =>
                 /\ n = a.maxRetries + 1
                 /\ a.outcome = Throw(LastRecordedError(a))
           /\ (pc = "threw" /\ a.outputDir # "ready") => (n = 0 /\ a.outcome.threw)

\* Two failed attempts, then the third and last one succeeds and is returned.
C26_Witness ==
    /\ pc = "returned"
    /\ audit.maxRetries = 2
    /\ Len(audit.tried) = 3
    /\ audit.tried[1].kind = "exec" /\ audit.tried[2].kind = "parse"
    /\ audit.outcome = Return(ReportOf(audit.url, audit.deviceType, 2))

\* Three failed attempts, the last of which recorded no error: the error of the second
\* attempt is thrown.
C26_WitnessThrew ==
    /\ pc = "threw"
    /\ audit.maxRetries = 2
    /\ Len(audit.tried) = 3
    /\ audit.tried[2].kind = "exec" /\ audit.tried[3].kind = "no directory"
    /\ audit.outcome = Throw(AttemptError("exec", 1))

\* A call with the maxRetries of a warmup makes one attempt at most.
WarmupSingleAttempt ==
    (pc \in {"attempt", "returned", "threw"} /\ audit.maxRetries = WARMUP_RETRIES) =>
        Len(audit.tried) <= 1

-----------------------------------------------------------------------------
(* SpecPsi: one call of runPSITest, a step per request of its loop.         *)

MaxPsiRetries == 3

\* The statuses of the responses of the PageSpeed Insights API.
PsiStatuses == {200, 400, 403, 429, 500, 503}

\* response.ok
ResponseOk(status) == status >= 200 /\ status <= 299

\* if (response.status === 429 || response.status >= 500)
RetriedStatus(status) == status = 429 \/ status >= 500

\* The result built from the body of the response to request number attempt.
PsiResultOf(url, deviceType, attempt) ==
    [url |-> url, deviceType |-> deviceType,
     categories |-> <<Perf(100 + 20 * attempt)>>,
     reportUrl |-> "https://pagespeed.web.dev/report?url=" \o url]

\* new Error('PSI API error: <status> - <text>'), or the error fetch or the reading
\* of the body rejected with, of request number attempt.
PsiError(kind, status, attempt) ==
    [message |-> IF kind = "response" THEN "PSI API error: " \o ToString(status)
                 ELSE kind,
     attempt |-> attempt]

\* new Error('Failed to run PSI test for ...')
FailedPsi(a) ==
    [message |-> "Failed to run PSI test for " \o a.url \o " on " \o a.deviceType,
     attempt |-> -1]

InitPsi ==
    /\ pc = "psi"
    /\ audit \in [url : AuditUrls, deviceType : {"mobile", "desktop"},
                  maxRetries : 0..MaxPsiRetries,
                  attempt : {0}, lastError : {<<>>}, tried : {<<>>},
                  outcome : {Unused}]
    /\ runs = Unused /\ averaged = Unused /\ results = Unused /\ errors = Unused
    /\ formatted = Unused /\ title = Unused /\ env = Unused /\ blocks = Unused
    /\ urls = Unused /\ deviceTypes = Unused /\ runsPerUrl = Unused
    /\ warmupRuns = Unused /\ batchStart = Unused /\ task = Unused
    /\ inputs = Unused /\ log = Unused /\ attempts = Unused /\ sent = Unused

\* The code before the first request: for (let attempt = 0; attempt < maxRetries; ...)
\* is entered, or is not and the error after the loop is thrown.
PsiStart ==
    /\ pc = "psi"
    /\ IF audit.attempt < audit.maxRetries
       THEN /\ pc' = "request"
            /\ UNCHANGED audit
       ELSE /\ pc' = "threw"
            /\ audit' = [audit EXCEPT !.outcome = Throw(FailedPsi(audit))]
    /\ UNCHANGED auditOnly

\* catch (error) { lastError = error; if (attempt === maxRetries - 1) throw lastError }
\* and the loop: a is the call after the request, error what was thrown in the try block.
PsiCatch(a, error) ==
    IF a.attempt = a.maxRetries - 1
    THEN /\ audit' = [a EXCEPT !.lastError = <<error>>, !.attempt = @ + 1,
                               !.outcome = Throw(error)]
         /\ pc' = "threw"
    ELSE /\ audit' = [a EXCEPT !.lastError = <<error>>, !.attempt = @ + 1]
         /\ pc' = "request"

\* One request answered with the given status.
PsiResponse(status) ==
    /\ pc = "request"
    /\ LET a == [audit EXCEPT !.tried = Append(@, [kind |-> "response",
                                                   status |-> status])]
           error == PsiError("response", status, audit.attempt)
       IN IF ResponseOk(status)
          THEN /\ audit' = [a EXCEPT !.outcome = Return(PsiResultOf(a.url, a.deviceType,
                                                                    a.attempt))]
               /\ pc' = "returned"
          ELSE IF RetriedStatus(status) /\ a.attempt < a.maxRetries - 1
          THEN \* lastError = error; continue
               /\ audit' = [a EXCEPT !.lastError = <<error>>, !.attempt = @ + 1]
               /\ pc' = "request"
          ELSE \* throw error, inside the try block
               PsiCatch(a, error)
    /\ UNCHANGED auditOnly

\* fetch rejects, or the body of an OK response cannot be read as a result.
PsiRequestFails(kind) ==
    /\ pc = "request"
    /\ PsiCatch([audit EXCEPT !.tried = Append(@, [kind |-> kind, status |-> 0])],
                PsiError(kind, 0, audit.attempt))
    /\ UNCHANGED auditOnly

NextPsi ==
    \/ PsiStart
    \/ \E status \in PsiStatuses : PsiResponse(status)
    \/ \E kind \in {"fetch failed", "invalid body"} : PsiRequestFails(kind)

SpecPsi == InitPsi /\ [][NextPsi]_vars

\* A response whose status is not OK and is neither 429 nor 500 or more.
OtherStatus(t) ==
    t.kind = "response" /\ ~ResponseOk(t.status) /\ ~RetriedStatus(t.status)

\* C30: a call makes at most maxRetries requests; a request follows a response that is
\* not OK only when its status is 429 or >= 500: after a response with another status
\* that is not OK the call has thrown, with this request as its last.
C30_RetriesOnlyTransient ==
    pc \in {"request", "returned", "threw"} =>
        LET n == Len(audit.tried)
        IN /\ n <= audit.maxRetries
           /\ \A i \in 1..n : OtherStatus(audit.tried[i]) => (i = n /\ pc = "threw")

\* The first request was answered with 400 and a second request was made, which
\* succeeded: the call returned its result.
C30_RetriedAfter400 ==
    /\ pc = "returned"
    /\ Len(audit.tried) = 2
    /\ audit.tried[1] = [kind |-> "response", status |-> 400]
    /\ audit.outcome = Return(PsiResultOf(audit.url, audit.deviceType, 1))

\* A call makes at most maxRetries requests, none after a request that succeeded; it
\* returns the result of its last request when that one succeeded, and has thrown the
\* error of its last request when maxRetries requests failed.
PsiRequestsBounded ==
    pc \in {"request", "returned", "threw"} =>
        LET a == audit
            n == Len(a.tried)
        IN /\ n <= a.maxRetries
           /\ \A i \in 1..n :
                 (a.tried[i].kind = "response" /\ ResponseOk(a.tried[i].status))
                     => (i = n /\ pc \in {"returned", "request"})
           /\ pc = "request" => n < a.maxRetries
           /\ pc = "returned" =>
                 a.outcome = Return(PsiResultOf(a.url, a.deviceType, n - 1))
           /\ (pc = "threw" /\ a.maxRetries > 0) =>
                 /\ n = a.maxRetries
                 /\ a.outcome = Throw(PsiError(a.tried[n].kind, a.tried[n].status, n - 1))

=============================================================================
